---- MODULE Spec2Model ----
(***************************************************************************)
(* Model of the episodic-memory storage providers:                         *)
(*   SqliteProvider   (src/src/db-provider.ts, embedded backend)           *)
(*   PostgresProvider (src/dist/providers/postgres-provider.js, server)    *)
(*                                                                         *)
(* The tables of the configured provider are one record `tables`; every   *)
(* provider method is one action that runs the whole handler, statement   *)
(* by statement, and records the call in `last` and the tables it started *)
(* from in `pre`.  The server backend's insertExchange is also modelled    *)
(* step by step (one action per awaited statement) for concurrent calls.  *)
(***************************************************************************)
EXTENDS Integers, Sequences, FiniteSets, TLC

\* ------------------------------------------------------------------ bounds
\* timestamps are 1..MaxTs (ISO strings, ordered as the numbers)
MaxTs == 2
\* explicit search limits are 1..MaxLimit
MaxLimit == 2
\* migration batch sizes are 1..MaxBatch
MaxBatch == 3

\* FLOAT[384] / vector(384): the fixed width of the vector column, scaled to 2
VecDim == 2
\* const { limit = 10, ... } = options
DefaultLimit == 10

Null == "null"
Undefined == "undefined"
NotInitialized == "Database not initialized"
StatementFailed == "statement failed"
None == "none"

Ids == {"e1", "e2"}
ToolIds == {"t1", "t2"}

\* ------------------------------------------------------------- partial maps
Put(f, k, v) == [x \in (DOMAIN f) \cup {k} |-> IF x = k THEN v ELSE f[x]]
Del(f, k) == [x \in (DOMAIN f) \ {k} |-> f[x]]
Restrict(f, S) == [x \in (DOMAIN f) \cap S |-> f[x]]
Overlay(f, g) == [x \in (DOMAIN f) \cup (DOMAIN g) |-> IF x \in DOMAIN g THEN g[x] ELSE f[x]]
Empty == [x \in {} |-> Null]
Range(s) == {s[i] : i \in DOMAIN s}

\* ------------------------------------------------------------------ inputs
\* The provenance of an exchange: the text columns the providers copy as they
\* are.  A message is a sequence of characters.
Metas ==
  { [project |-> "pA", userMessage |-> << "D", "o" >>, assistantMessage |-> << "k" >>,
     archivePath |-> "a1", sessionId |-> "s1", isSidechain |-> FALSE],
    [project |-> "pB", userMessage |-> << "p" >>, assistantMessage |-> << "d", "o" >>,
     archivePath |-> "a2", sessionId |-> Undefined, isSidechain |-> TRUE] }

ToolCall(tid, eid, name) == [id |-> tid, exchangeId |-> eid, toolName |-> name]

\* exchange.toolCalls of an exchange with identifier eid (<< >>: absent or empty)
ToolLists(eid) ==
  { << >>,
    << ToolCall("t1", eid, "Read") >>,
    << ToolCall("t1", eid, "Read"), ToolCall("t2", eid, "Write") >> }

Exchanges ==
  { [id |-> i, timestamp |-> ts, project |-> m.project, userMessage |-> m.userMessage,
     assistantMessage |-> m.assistantMessage, archivePath |-> m.archivePath,
     sessionId |-> m.sessionId, isSidechain |-> m.isSidechain, toolCalls |-> tl]
    : i \in Ids, ts \in 1..MaxTs, m \in Metas, tl \in UNION {ToolLists(j) : j \in Ids} }

ExchangeInputs == {e \in Exchanges : e.toolCalls \in ToolLists(e.id)}

Vectors == {<< 0, 0 >>, << 1, 0 >>, << 1, 1 >>}
\* an embedding of the wrong length
ShortVector == << 0 >>
Embeddings == Vectors \cup {ShortVector}

\* a NULL in a vector column (the embedded backend never writes exchanges.embedding)
NullVector == << >>

\* --------------------------------------------------------- row conversions
\* x || null
OrNull(x) == IF x \in {Undefined, ""} THEN Null ELSE x

\* new Float32Array(embedding): exact on the model's small integers
Float32Array(v) == [i \in DOMAIN v |-> v[i]]

\* the VALUES list of the embedded backend's INSERT OR REPLACE INTO exchanges
SqRow(e, now) ==
  [id |-> e.id, project |-> e.project, timestamp |-> e.timestamp,
   user_message |-> e.userMessage, assistant_message |-> e.assistantMessage,
   archive_path |-> e.archivePath, session_id |-> OrNull(e.sessionId),
   is_sidechain |-> IF e.isSidechain THEN 1 ELSE 0, embedding |-> NullVector,
   last_indexed |-> now]

\* vectorToString(embedding) read back by the vector column: the same numbers
vectorToString(v) == [i \in DOMAIN v |-> v[i]]

\* the parameter list of the server backend's INSERT INTO exchanges, which
\* ON CONFLICT (id) DO UPDATE SET writes into every column
PgRow(e, v, now) ==
  [id |-> e.id, project |-> e.project, timestamp |-> e.timestamp,
   user_message |-> e.userMessage, assistant_message |-> e.assistantMessage,
   archive_path |-> e.archivePath, session_id |-> OrNull(e.sessionId),
   is_sidechain |-> e.isSidechain, embedding |-> vectorToString(v),
   last_indexed |-> now]

\* the VALUES list of INSERT INTO tool_calls (both backends)
ToolRow(tc) == [id |-> tc.id, exchange_id |-> tc.exchangeId, tool_name |-> tc.toolName]

EmptyTables ==
  [exchanges |-> Empty, vec_exchanges |-> Empty, tool_calls |-> Empty,
   synced_files |-> Empty, summaries |-> Empty]

\* ------------------------------------------- embedded backend: statements
\* Every statement returns [ok, t]: whether it ran, and the tables after it.
\* fk: whether the SQLite build enforces foreign keys (the provider sets no pragma).

\* INSERT OR REPLACE INTO exchanges (...) VALUES (...)
SqUpsertExchange(t, e, now) ==
  [ok |-> TRUE, t |-> [t EXCEPT !.exchanges = Put(@, e.id, SqRow(e, now))]]

\* a DELETE on the vector table that removes nothing
SqVecDeleteNothing(t, id) == [ok |-> TRUE, t |-> t]

\* DELETE FROM vec_exchanges WHERE id = ?
SqVecDelete(t, id) ==
  [ok |-> TRUE, t |-> [t EXCEPT !.vec_exchanges = Del(@, id)]]

\* INSERT INTO vec_exchanges (id, embedding) VALUES (?, ?): the virtual table
\* rejects a vector that is not VecDim wide and a duplicate primary key
SqVecInsert(t, id, v) ==
  IF Len(v) = VecDim /\ id \notin DOMAIN t.vec_exchanges
  THEN [ok |-> TRUE, t |-> [t EXCEPT !.vec_exchanges = Put(@, id, Float32Array(v))]]
  ELSE [ok |-> FALSE, t |-> t]

\* INSERT OR REPLACE INTO tool_calls (...): FOREIGN KEY (exchange_id) REFERENCES exchanges(id)
SqUpsertTool(t, tc, fk) ==
  IF fk => tc.exchangeId \in DOMAIN t.exchanges
  THEN [ok |-> TRUE, t |-> [t EXCEPT !.tool_calls = Put(@, tc.id, ToolRow(tc))]]
  ELSE [ok |-> FALSE, t |-> t]

\* DELETE FROM exchanges WHERE id = ?: the foreign key has no ON DELETE action,
\* so an enforcing build refuses to delete a row that tool calls reference
SqDeleteRow(t, id, fk) ==
  IF fk /\ \E x \in DOMAIN t.tool_calls : t.tool_calls[x].exchange_id = id
  THEN [ok |-> FALSE, t |-> t]
  ELSE [ok |-> TRUE, t |-> [t EXCEPT !.exchanges = Del(@, id)]]

SqExec(t, s, fk) ==
  CASE s.op = "exchange"  -> SqUpsertExchange(t, s.e, s.now)
    [] s.op = "vecDelete" -> SqVecDelete(t, s.id)
    [] s.op = "vecInsert" -> SqVecInsert(t, s.id, s.v)
    [] s.op = "tool"      -> SqUpsertTool(t, s.tc, fk)
    [] s.op = "rowDelete" -> SqDeleteRow(t, s.id, fk)

\* The statements of one call run one after the other, each committed on its
\* own; the first that fails throws, and what ran before it stays.
\* fault: the statement an outside failure (busy, I/O) hits, 0 for none.
RECURSIVE SqRun(_, _, _, _, _)
SqRun(t, stmts, i, fault, fk) ==
  IF i > Len(stmts) THEN [ok |-> TRUE, t |-> t]
  ELSE IF i = fault THEN [ok |-> FALSE, t |-> t]
  ELSE LET r == SqExec(t, stmts[i], fk)
       IN  IF r.ok THEN SqRun(r.t, stmts, i + 1, fault, fk) ELSE [ok |-> FALSE, t |-> t]

ToolStatements(e) == [i \in 1..Len(e.toolCalls) |-> [op |-> "tool", tc |-> e.toolCalls[i]]]

SqInsertStatements(e, v, now) ==
  << [op |-> "exchange", e |-> e, now |-> now], [op |-> "vecDelete", id |-> e.id],
     [op |-> "vecInsert", id |-> e.id, v |-> v] >> \o ToolStatements(e)

SqInsertExchange(t, e, v, now, fault, fk) ==
  SqRun(t, SqInsertStatements(e, v, now), 1, fault, fk)

SqDeleteStatements(id) ==
  << [op |-> "vecDelete", id |-> id], [op |-> "rowDelete", id |-> id] >>

SqDeleteExchange(t, id, fault, fk) == SqRun(t, SqDeleteStatements(id), 1, fault, fk)

\* --------------------------------------------- server backend: statements
\* (mutant) the DO UPDATE SET list without embedding = EXCLUDED.embedding
PgUpsertExchangeKeepsEmbedding(t, e, v, now) ==
  IF Len(v) = VecDim /\ e.timestamp # 0
  THEN [ok |-> TRUE,
        t |-> [t EXCEPT !.exchanges =
                 Put(@, e.id, IF e.id \in DOMAIN @
                              THEN [PgRow(e, v, now) EXCEPT !.embedding = t.exchanges[e.id].embedding]
                              ELSE PgRow(e, v, now))]]
  ELSE [ok |-> FALSE, t |-> t]

\* INSERT INTO exchanges (...) ON CONFLICT (id) DO UPDATE SET <every column>;
\* the vector(384) column rejects an embedding of another width, and the
\* TIMESTAMPTZ column the empty string (timestamp 0)
PgUpsertExchange(t, e, v, now) ==
  IF Len(v) = VecDim /\ e.timestamp # 0
  THEN [ok |-> TRUE, t |-> [t EXCEPT !.exchanges = Put(@, e.id, PgRow(e, v, now))]]
  ELSE [ok |-> FALSE, t |-> t]

\* INSERT INTO tool_calls (...) ON CONFLICT (id) DO UPDATE SET <every column>;
\* exchange_id REFERENCES exchanges(id)
PgUpsertTool(t, tc) ==
  IF tc.exchangeId \in DOMAIN t.exchanges
  THEN [ok |-> TRUE, t |-> [t EXCEPT !.tool_calls = Put(@, tc.id, ToolRow(tc))]]
  ELSE [ok |-> FALSE, t |-> t]

\* exchange_id ... REFERENCES exchanges(id) ON DELETE CASCADE
Cascade(tools, id) == Restrict(tools, {x \in DOMAIN tools : tools[x].exchange_id # id})

\* DELETE FROM exchanges WHERE id = $1
PgDeleteRow(t, id) ==
  [ok |-> TRUE,
   t |-> [t EXCEPT !.exchanges = Del(@, id), !.tool_calls = Cascade(@, id)]]

PgExec(t, s) ==
  CASE s.op = "exchange" -> PgUpsertExchange(t, s.e, s.v, s.now)
    [] s.op = "tool"     -> PgUpsertTool(t, s.tc)
    [] OTHER             -> [ok |-> TRUE, t |-> t]    \* BEGIN, COMMIT

RECURSIVE PgRun(_, _, _, _)
PgRun(t, stmts, i, fault) ==
  IF i > Len(stmts) THEN [ok |-> TRUE, t |-> t]
  ELSE IF i = fault THEN [ok |-> FALSE, t |-> t]
  ELSE LET r == PgExec(t, stmts[i])
       IN  IF r.ok THEN PgRun(r.t, stmts, i + 1, fault) ELSE [ok |-> FALSE, t |-> t]

PgInsertStatements(e, v, now) ==
  << [op |-> "BEGIN"], [op |-> "exchange", e |-> e, v |-> v, now |-> now] >>
  \o ToolStatements(e) \o << [op |-> "COMMIT"] >>

\* a ROLLBACK that keeps what the transaction had written
RollbackKeepsWork(before, work) == work
\* catch (error) { await client.query('ROLLBACK'); throw error; }
\* before: the committed tables; work: the same with the transaction's writes
Rollback(before, work) == before

\* One whole call with no other call in between: the transaction's statements,
\* then COMMIT, or ROLLBACK as soon as one fails.
PgInsertExchange(t, e, v, now, fault) ==
  LET r == PgRun(t, PgInsertStatements(e, v, now), 1, fault)
  IN  IF r.ok THEN r ELSE [ok |-> FALSE, t |-> Rollback(t, r.t)]

\* a single statement through the pool: it runs or it does not
PgDeleteExchange(t, id, fault) ==
  IF fault = 1 THEN [ok |-> FALSE, t |-> t] ELSE PgDeleteRow(t, id)

\* ------------------------------------------------------------ vector search
\* if (after) ... / if (before) ...: 0 stands for an option that is not given
HasTime(x) == x # 0

\* the window with > and < in place of >= and <=
InWindowExclusive(ts, after, before) ==
  /\ HasTime(after) => ts > after
  /\ HasTime(before) => ts < before
\* e.timestamp >= after AND e.timestamp <= before, each only when given
InWindow(ts, after, before) ==
  /\ HasTime(after) => ts >= after
  /\ HasTime(before) => ts <= before

\* const { limit = 10 } = options: 0 stands for no limit given
Limit(l) == IF l = 0 THEN DefaultLimit ELSE l

RECURSIVE SumSq(_, _, _)
SumSq(a, b, i) == IF i = 0 THEN 0 ELSE (a[i] - b[i]) * (a[i] - b[i]) + SumSq(a, b, i - 1)

\* Euclidean distance of two vectors of the same width; the model keeps its
\* square, which orders the rows as the distance does and is 0 when it is
Distance(a, b) == SumSq(a, b, Len(a))

\* The order a backend returns rows of equal distance in is its own: `tie` is
\* that order, a ranking of the identifiers.
TieOrders == {f \in [Ids -> 1..Cardinality(Ids)] : \A a, b \in Ids : a # b => f[a] # f[b]}

\* ORDER BY key DESC where the query says ASC
PrecedesDescending(a, b, key, tie) == key[a] > key[b] \/ (key[a] = key[b] /\ tie[a] < tie[b])
Precedes(a, b, key, tie) == key[a] < key[b] \/ (key[a] = key[b] /\ tie[a] < tie[b])

\* ORDER BY key ASC over the rows S
RECURSIVE OrderBy(_, _, _)
OrderBy(S, key, tie) ==
  IF S = {} THEN << >>
  ELSE LET m == CHOOSE x \in S : \A y \in S \ {x} : Precedes(x, y, key, tie)
       IN  << m >> \o OrderBy(S \ {m}, key, tie)

\* a query without its LIMIT
TakeAll(s, n) == s
\* LIMIT n / k = n
Take(s, n) == SubSeq(s, 1, IF Len(s) < n THEN Len(s) ELSE n)

ResultRow(row, d) ==
  [id |-> row.id, timestamp |-> row.timestamp, user_message |-> row.user_message,
   assistant_message |-> row.assistant_message, distance |-> d]

\* FROM vec_exchanges AS vec JOIN exchanges AS e ON vec.id = e.id
\* WHERE vec.embedding MATCH ? AND k = ? <timeClause> ORDER BY vec.distance ASC:
\* the vector table yields its k nearest rows, the join and the time clause
\* filter those k rows.
SqSearchByVector(t, q, limit, after, before, tie) ==
  IF Len(q) # VecDim THEN [ok |-> FALSE, rows |-> << >>]
  ELSE
    LET dist == [x \in DOMAIN t.vec_exchanges |->
                   Distance(t.vec_exchanges[x], Float32Array(q))]
        knn == Take(OrderBy(DOMAIN dist, dist, tie), Limit(limit))
        kept == {x \in Range(knn) : /\ x \in DOMAIN t.exchanges
                                    /\ InWindow(t.exchanges[x].timestamp, after, before)}
        ids == OrderBy(kept, dist, tie)
    IN  [ok |-> TRUE,
         rows |-> [i \in 1..Len(ids) |-> ResultRow(t.exchanges[ids[i]], dist[ids[i]])]]

\* FROM exchanges e WHERE e.embedding IS NOT NULL <AND window>
\* ORDER BY e.embedding <-> $1 LIMIT $2  (the index scan taken as exact)
PgSearchByVector(t, q, limit, after, before, tie) ==
  IF Len(q) # VecDim THEN [ok |-> FALSE, rows |-> << >>]
  ELSE
    LET cand == {x \in DOMAIN t.exchanges :
                   /\ t.exchanges[x].embedding # NullVector
                   /\ InWindow(t.exchanges[x].timestamp, after, before)}
        dist == [x \in cand |-> Distance(t.exchanges[x].embedding, vectorToString(q))]
        ids == Take(OrderBy(cand, dist, tie), Limit(limit))
    IN  [ok |-> TRUE,
         rows |-> [i \in 1..Len(ids) |-> ResultRow(t.exchanges[ids[i]], dist[ids[i]])]]

\* -------------------------------------------------------------- text search
\* LIKE folds the case of ASCII letters only; ILIKE folds the case of every
\* letter.  In a pattern % stands for any run of characters and _ for any one.
Chars == {"D", "d", "o", "k", "p", "E'", "e'", "_", "%"}
SqLower == [c \in Chars |-> IF c = "D" THEN "d" ELSE c]
PgLower == [c \in Chars |-> IF c = "D" THEN "d" ELSE IF c = "E'" THEN "e'" ELSE c]

\* text[i..] LIKE pat[j..]
RECURSIVE LikeFrom(_, _, _, _, _)
LikeFrom(text, i, pat, j, lower) ==
  IF j > Len(pat) THEN i > Len(text)
  ELSE IF pat[j] = "%"
  THEN \/ LikeFrom(text, i, pat, j + 1, lower)
       \/ i <= Len(text) /\ LikeFrom(text, i + 1, pat, j, lower)
  ELSE /\ i <= Len(text)
       /\ pat[j] = "_" \/ lower[text[i]] = lower[pat[j]]
       /\ LikeFrom(text, i + 1, pat, j + 1, lower)

\* `%${query}%`
LikePattern(query) == << "%" >> \o query \o << "%" >>

\* msg LIKE `%${query}%`
Like(msg, query, lower) == LikeFrom(msg, 1, LikePattern(query), 1, lower)

Negated(t) == [x \in DOMAIN t.exchanges |-> 0 - t.exchanges[x].timestamp]

\* FROM exchanges AS e WHERE (e.user_message LIKE ? OR e.assistant_message LIKE ?)
\* <timeClause> ORDER BY e.timestamp DESC LIMIT ?
SqSearchByText(t, query, limit, after, before, tie) ==
  LET cand == {x \in DOMAIN t.exchanges :
                 /\ \/ Like(t.exchanges[x].user_message, query, SqLower)
                    \/ Like(t.exchanges[x].assistant_message, query, SqLower)
                 /\ InWindow(t.exchanges[x].timestamp, after, before)}
      ids == Take(OrderBy(cand, Negated(t), tie), Limit(limit))
  IN  [ok |-> TRUE, rows |-> [i \in 1..Len(ids) |-> ResultRow(t.exchanges[ids[i]], 0)]]

\* FROM exchanges e WHERE (e.user_message ILIKE $1 OR e.assistant_message ILIKE $2)
\* <AND window> ORDER BY e.timestamp DESC LIMIT $3
PgSearchByText(t, query, limit, after, before, tie) ==
  LET cand == {x \in DOMAIN t.exchanges :
                 /\ \/ Like(t.exchanges[x].user_message, query, PgLower)
                    \/ Like(t.exchanges[x].assistant_message, query, PgLower)
                 /\ InWindow(t.exchanges[x].timestamp, after, before)}
      ids == Take(OrderBy(cand, Negated(t), tie), Limit(limit))
  IN  [ok |-> TRUE, rows |-> [i \in 1..Len(ids) |-> ResultRow(t.exchanges[ids[i]], 0)]]

\* ------------------------------------------------------------------ queries
Max(S) == CHOOSE x \in S : \A y \in S : y <= x
Min(S) == CHOOSE x \in S : \A y \in S : x <= y

RowsOfArchive(t, archivePath) ==
  {x \in DOMAIN t.exchanges : t.exchanges[x].archive_path = archivePath}

\* SELECT id, archive_path as archivePath FROM exchanges (rows in no stated order)
GetAllExchanges(t) ==
  {[id |-> x, archivePath |-> t.exchanges[x].archive_path] : x \in DOMAIN t.exchanges}

\* SELECT MAX(last_indexed) ... WHERE archive_path = ?: no value (null) or one
GetFileLastIndexed(t, archivePath) ==
  LET S == {t.exchanges[x].last_indexed : x \in RowsOfArchive(t, archivePath)}
  IN  IF S = {} THEN {} ELSE {Max(S)}

\* count > 1 in place of count > 0
HasSeveralExchangesForArchive(t, archivePath) == Cardinality(RowsOfArchive(t, archivePath)) > 1
\* SELECT COUNT(*) as count ... WHERE archive_path = ?; count > 0
HasExchangesForArchive(t, archivePath) == Cardinality(RowsOfArchive(t, archivePath)) > 0

Projects == {m.project : m \in Metas}
ProjectOrders ==
  {f \in [Projects -> 1..Cardinality(Projects)] : \A a, b \in Projects : a # b => f[a] # f[b]}

\* x ? ... : ...  (null, undefined and the empty string, which is timestamp 0, are falsy)
Truthy(S) == S # {} /\ \A x \in S : x # 0

\* the six SELECTs of getStats; topProjects: GROUP BY project ORDER BY count
\* DESC LIMIT 10, the order among equal counts being the database's;
\* dateRange: dateRange?.earliest ? { earliest, latest } : undefined
GetStats(t, tie) ==
  LET rows == DOMAIN t.exchanges
      paths == {t.exchanges[x].archive_path : x \in rows}
      stamps == {t.exchanges[x].timestamp : x \in rows}
      projs == {t.exchanges[x].project : x \in rows}
      negCount == [p \in projs |->
                     0 - Cardinality({t.exchanges[x].archive_path :
                                        x \in {y \in rows : t.exchanges[y].project = p}})]
      top == Take(OrderBy(projs, negCount, tie), 10)
      earliest == IF stamps = {} THEN {} ELSE {Min(stamps)}
  IN  [totalConversations |-> Cardinality(paths),
       totalExchanges |-> Cardinality(rows),
       dateRange |-> IF Truthy(earliest)
                     THEN {[earliest |-> Min(stamps), latest |-> Max(stamps)]}
                     ELSE {},
       projectCount |-> Cardinality(projs),
       topProjects |-> [i \in 1..Len(top) |-> [project |-> top[i], count |-> 0 - negCount[top[i]]]],
       archivePaths |-> paths]

\* rawQuery('SELECT id, tool_name FROM tool_calls WHERE exchange_id = $1', [id])
RawQueryToolCalls(t, id) ==
  {[id |-> x, tool_name |-> t.tool_calls[x].tool_name] :
     x \in {y \in DOMAIN t.tool_calls : t.tool_calls[y].exchange_id = id}}

\* rawExecute('DELETE FROM exchanges'): the statement and nothing else.  The
\* embedded backend keeps its vector entries, and refuses when a tool call
\* refers to a row and foreign keys are enforced.
SqRawExecuteDeleteAll(t, fk) ==
  IF fk /\ DOMAIN t.tool_calls # {}
  THEN [ok |-> FALSE, changes |-> 0, t |-> t]
  ELSE [ok |-> TRUE, changes |-> Cardinality(DOMAIN t.exchanges),
        t |-> [t EXCEPT !.exchanges = Empty]]

\* the same statement on the server: the tool calls go with their exchanges
PgRawExecuteDeleteAll(t) ==
  [ok |-> TRUE, changes |-> Cardinality(DOMAIN t.exchanges),
   t |-> [t EXCEPT !.exchanges = Empty, !.tool_calls = Empty]]

\* ------------------------------------------ sync tracking and summaries (server)
\* A modification time is a number of half milliseconds, so that a time
\* between two whole milliseconds can be told from them.
HalfMs(ms) == 2 * ms
\* Math.floor(mtimeMs), in whole milliseconds
MathFloor(halves) == halves \div 2

\* SELECT mtime_ms, size_bytes FROM synced_files WHERE source_path = $1:
\* null or { mtimeMs, sizeBytes }
GetSyncedFile(t, sourcePath) ==
  IF sourcePath \in DOMAIN t.synced_files
  THEN {[mtimeMs |-> t.synced_files[sourcePath].mtime_ms,
         sizeBytes |-> t.synced_files[sourcePath].size_bytes]}
  ELSE {}

\* INSERT INTO synced_files ... ON CONFLICT (source_path) DO UPDATE
SetSyncedFile(t, sourcePath, mtimeHalves, sizeBytes, now) ==
  [t EXCEPT !.synced_files =
     Put(@, sourcePath, [mtime_ms |-> MathFloor(mtimeHalves), size_bytes |-> sizeBytes,
                         last_synced |-> now])]

NeedsSyncUnlessOlder(t, sourcePath, mtimeHalves, sizeBytes) ==
  LET existing == GetSyncedFile(t, sourcePath)
  IN  \/ existing = {}
      \/ \E f \in existing : HalfMs(f.mtimeMs) <= mtimeHalves \/ f.sizeBytes # sizeBytes

\* if (!existing) return true;
\* return existing.mtimeMs < mtimeMs || existing.sizeBytes !== sizeBytes
NeedsSync(t, sourcePath, mtimeHalves, sizeBytes) ==
  LET existing == GetSyncedFile(t, sourcePath)
  IN  \/ existing = {}
      \/ \E f \in existing : HalfMs(f.mtimeMs) < mtimeHalves \/ f.sizeBytes # sizeBytes

\* SELECT summary FROM summaries WHERE session_id = $1: null or the summary
GetSummary(t, sessionId) ==
  IF sessionId \in DOMAIN t.summaries THEN {t.summaries[sessionId].summary} ELSE {}

\* SELECT 1 FROM summaries WHERE session_id = $1; rows.length > 0
HasSummary(t, sessionId) == sessionId \in DOMAIN t.summaries

SetSummaryKeepsFirst(t, sessionId, project, summary, now) ==
  IF sessionId \in DOMAIN t.summaries THEN t
  ELSE [t EXCEPT !.summaries =
          Put(@, sessionId, [project |-> project, summary |-> summary, created_at |-> now])]

\* INSERT INTO summaries ... ON CONFLICT (session_id) DO UPDATE
SetSummary(t, sessionId, project, summary, now) ==
  [t EXCEPT !.summaries =
     Put(@, sessionId, [project |-> project, summary |-> summary, created_at |-> now])]

\* SELECT DISTINCT e.session_id, e.project FROM exchanges e LEFT JOIN summaries s
\* ON e.session_id = s.session_id WHERE e.session_id IS NOT NULL AND
\* s.session_id IS NULL: the rows before LIMIT
SessionsWithoutSummary(t) ==
  {[sessionId |-> t.exchanges[x].session_id, project |-> t.exchanges[x].project] :
     x \in {y \in DOMAIN t.exchanges : /\ t.exchanges[y].session_id # Null
                                       /\ t.exchanges[y].session_id \notin DOMAIN t.summaries}}

\* LIMIT $1 without ORDER BY: any `limit` of the rows
GetSessionsNeedingSummaries(t, limit) ==
  LET all == SessionsWithoutSummary(t)
      n == IF Cardinality(all) < Limit(limit) THEN Cardinality(all) ELSE Limit(limit)
  IN  {S \in SUBSET all : Cardinality(S) = n}

\* ------------------------------------------------------------------ schema
\* the migrations list of migrateSchema(), in its order
Migrations ==
  << "last_indexed", "parent_uuid", "is_sidechain", "session_id", "cwd", "git_branch",
     "claude_version", "thinking_level", "thinking_disabled", "thinking_triggers" >>

MigrationColumns == {Migrations[i] : i \in DOMAIN Migrations}

\* "id" stands for the columns every version of the table has (id, project,
\* timestamp, the messages, archive_path, line_start, line_end, embedding)
BaseColumns == {"id"}
ExchangeColumns == BaseColumns \cup MigrationColumns

\* CREATE TABLE IF NOT EXISTS exchanges (...): creates the table with every
\* column, leaves an existing table as it is
CreateExchanges(cols) == IF cols = {} THEN ExchangeColumns ELSE cols

\* CREATE INDEX IF NOT EXISTS ... ON exchanges(session_id), (is_sidechain),
\* (git_branch): the statement fails when the table has no such column (the
\* other indexes are on base columns)
IndexedColumns == {"session_id", "is_sidechain", "git_branch"}
CreateIndexes(cols) == IndexedColumns \subseteq cols

\* for (const migration of migrations)
\*   if (!columnNames.has(migration.name)) run(migration.sql)
\* columnNames is read once, before the loop; failing: the column whose ALTER
\* TABLE statement fails, if it is run
RECURSIVE AddColumns(_, _, _, _)
AddColumns(cols, columnNames, i, failing) ==
  IF i > Len(Migrations) THEN [ok |-> TRUE, cols |-> cols]
  ELSE IF Migrations[i] \in columnNames THEN AddColumns(cols, columnNames, i + 1, failing)
  ELSE IF Migrations[i] = failing THEN [ok |-> FALSE, cols |-> cols]
  ELSE AddColumns(cols \cup {Migrations[i]}, columnNames, i + 1, failing)

\* a migrateSchema() that adds the first missing column only
MigrateSchemaFirstOnly(cols, failing) ==
  LET missing == {i \in DOMAIN Migrations : Migrations[i] \notin cols}
  IN  IF missing = {} THEN [ok |-> TRUE, cols |-> cols]
      ELSE LET i == CHOOSE j \in missing : \A k \in missing : j <= k
           IN  IF Migrations[i] = failing THEN [ok |-> FALSE, cols |-> cols]
               ELSE [ok |-> TRUE, cols |-> cols \cup {Migrations[i]}]

MigrateSchema(cols, failing) == AddColumns(cols, cols, 1, failing)

\* the schema statements of SqliteProvider.initialize(), after the handle is
\* assigned: sqliteVec.load (fault "extension"), the CREATE TABLE statements
\* (fault "table"), migrateSchema() (fault: a column name), the indexes
SqSchema(cols, fault) ==
  IF fault \in {"extension", "table"} THEN [ok |-> FALSE, cols |-> cols]
  ELSE LET m == MigrateSchema(CreateExchanges(cols), fault)
       IN  IF m.ok THEN [ok |-> CreateIndexes(m.cols), cols |-> m.cols] ELSE m

\* the schema statements of PostgresProvider.initialize(), after connect():
\* CREATE EXTENSION (fault "extension"), the CREATE TABLE statements (fault
\* "table"), the indexes, migrateSchema(client) (fault: a column name); each
\* statement commits on its own
PgSchema(cols, fault) ==
  IF fault \in {"extension", "table"} THEN [ok |-> FALSE, cols |-> cols]
  ELSE LET created == CreateExchanges(cols)
       IN  IF CreateIndexes(created) THEN MigrateSchema(created, fault)
           ELSE [ok |-> FALSE, cols |-> created]

\* ------------------------------------------------------------------- state
VARIABLES
  backend,      \* the configured provider: "sqlite" or "postgresql"
  foreignKeys,  \* whether the SQLite build enforces foreign keys
  sqliteDb,     \* the embedded database file a migration reads (opened readonly)
  summaryFiles, \* the conversations whose -summary.txt file exists in the archive
  columns,      \* the columns of the stored exchanges table; {} while there is no table
  orphans,      \* handles or pools that were opened, then replaced in this.db /
                \* this.pool without being closed
  clients,      \* the connection pool's clients: max, the configured pool size,
                \* and out, the clients checked out
  run,          \* the processBatch call in progress: its arguments, its loop
                \* variables and the processor calls in flight
  db,           \* SqliteProvider.db: Null or "open"
  pool,         \* PostgresProvider.pool: Null, "open", "unreachable" or "ending"
  tables,       \* the stored (committed) tables of the configured backend
  lifecycle,    \* the last lifecycle call: "new", "initialized", "initFailed",
                \* "closing", "closed"
  clock,        \* Date.now()
  tx,           \* the server backend's insertExchange calls in flight, per caller
  last          \* the last completed call: its arguments and its outcome

\* re-initializations of an open provider that are followed
MaxOrphans == 2
\* largest configured pool size
MaxPool == 2
\* longest list of items given to processBatch
MaxItems == 3
\* largest concurrency given to processBatch
MaxConcurrency == 3

vars == << backend, foreignKeys, sqliteDb, summaryFiles, run, clients, columns, orphans, db, pool, tables, lifecycle, clock, tx, last >>

\* no processBatch call was made
NoRun == [pc |-> "idle"]

Callers == {"c1", "c2"}
Idle == [pc |-> "idle"]

Handle == IF backend = "sqlite" THEN db ELSE pool

\* a guard that lets every call through
NeverRefuses(h) == FALSE
\* if (!this.db) throw new Error('Database not initialized')
\* if (!this.pool) throw new Error('Database not initialized')
NotOpen(h) == h = Null

\* pool.connect() / pool.query() reject on a pool that is ending or that cannot
\* reach its server
PoolUnusable == "pool unusable"

\* why a call is refused before it reads or writes anything: None when it is
\* not.  A statement on a store whose exchanges table is missing, or lacks a
\* column the statement names, fails.
Refusal ==
  IF NotOpen(Handle) THEN NotInitialized
  ELSE IF Handle # "open" THEN PoolUnusable
  ELSE IF columns # ExchangeColumns THEN StatementFailed
  ELSE None

Init ==
  /\ backend \in {"sqlite", "postgresql"}
  /\ foreignKeys \in (IF backend = "sqlite" THEN BOOLEAN ELSE {TRUE})
  /\ sqliteDb = EmptyTables
  /\ summaryFiles = {}
  /\ columns = {}
  /\ orphans = 0
  /\ run = NoRun
  /\ clients = [max |-> Cardinality(Callers) + 1, out |-> 0]
  /\ db = Null
  /\ pool = Null
  /\ tables = EmptyTables
  /\ lifecycle = "new"
  /\ clock = 1
  /\ tx = [c \in Callers |-> Idle]
  /\ last = [op |-> "none", when |-> "new", err |-> None]

Quiet == \A c \in Callers : tx[c].pc = "idle"

\* ---------------------------------------------------------------- lifecycle
\* initialize(): this.db = new Database(dbPath) / this.pool = new Pool(...),
\* await this.pool.connect(), then the schema statements (CREATE ... IF NOT
\* EXISTS: the stored rows stay).  fault "open": the database file cannot be
\* opened (the constructor throws, this.db is not assigned) / the server cannot
\* be reached (this.pool is assigned, connect() rejects).  The handle or pool
\* an open provider held before the call is replaced without being closed.
initialize(fault) ==
  /\ Quiet
  /\ lifecycle # "closing"
  /\ Handle = "open" => orphans < MaxOrphans
  /\ LET opened == fault # "open"
         r == IF ~opened THEN [ok |-> FALSE, cols |-> columns]
              ELSE IF backend = "sqlite" THEN SqSchema(columns, fault)
              ELSE PgSchema(columns, fault)
     IN  /\ IF backend = "sqlite"
            THEN /\ db' = IF opened THEN "open" ELSE db
                 /\ pool' = pool
            ELSE /\ pool' = IF opened THEN "open" ELSE "unreachable"
                 /\ db' = db
         /\ orphans' = IF Handle = "open" /\ (opened \/ backend = "postgresql")
                       THEN orphans + 1 ELSE orphans
         /\ columns' = r.cols
         /\ lifecycle' = IF r.ok THEN "initialized" ELSE "initFailed"
         /\ last' = [op |-> "initialize", when |-> lifecycle,
                     err |-> IF r.ok THEN None ELSE StatementFailed, fault |-> fault]
  /\ UNCHANGED << backend, foreignKeys, sqliteDb, summaryFiles, run, clients, tables, clock, tx >>

\* a close() that leaves the handle in place
KeepHandle(h) == h
\* this.db = null / this.pool = null
CloseHandle(h) == Null

\* close(): if (this.db) { this.db.close(); this.db = null; }
\*          if (this.pool) { await this.pool.end(); this.pool = null; }
\* On the server backend the call is suspended in pool.end() with the pool
\* still assigned; closed is its resumption.
close ==
  /\ Quiet
  /\ lifecycle # "closing"
  /\ IF backend = "sqlite"
     THEN /\ db' = CloseHandle(db)
          /\ pool' = pool
          /\ lifecycle' = "closed"
     ELSE /\ db' = db
          /\ pool' = IF NotOpen(pool) THEN pool ELSE "ending"
          /\ lifecycle' = IF NotOpen(pool) THEN "closed" ELSE "closing"
  /\ last' = [op |-> "close", when |-> lifecycle, err |-> None]
  /\ UNCHANGED << backend, foreignKeys, sqliteDb, summaryFiles, run, clients, columns, orphans, tables, clock, tx >>

closed ==
  /\ lifecycle = "closing"
  /\ pool' = CloseHandle(pool)
  /\ lifecycle' = "closed"
  /\ last' = [op |-> "closed", when |-> lifecycle, err |-> None]
  /\ UNCHANGED << backend, foreignKeys, sqliteDb, summaryFiles, run, clients, columns, orphans, db, tables, clock, tx >>

\* ------------------------------------------------------- exchange operations
Outcome(ok) == IF ok THEN None ELSE StatementFailed

\* the statements one insertExchange call issues; a fault hits one of them or none
InsertStatements(e, v) ==
  IF backend = "sqlite" THEN SqInsertStatements(e, v, clock) ELSE PgInsertStatements(e, v, clock)

FaultPoints(stmts) == 0..Len(stmts)

\* `last` keeps the row the identifier had when the call began (old: none or one)
OldRow(id) == IF id \in DOMAIN tables.exchanges THEN {tables.exchanges[id]} ELSE {}

insertExchange(e, v, fault) ==
  /\ Quiet
  /\ IF Refusal # None
     THEN /\ tables' = tables
          /\ last' = [op |-> "insertExchange", when |-> lifecycle, err |-> Refusal,
                      e |-> e, v |-> v, old |-> OldRow(e.id)]
     ELSE LET r == IF backend = "sqlite"
                   THEN SqInsertExchange(tables, e, v, clock, fault, foreignKeys)
                   ELSE PgInsertExchange(tables, e, v, clock, fault)
          IN  /\ tables' = r.t
              /\ last' = [op |-> "insertExchange", when |-> lifecycle, err |-> Outcome(r.ok),
                          e |-> e, v |-> v, old |-> OldRow(e.id)]
  /\ UNCHANGED << backend, foreignKeys, sqliteDb, summaryFiles, run, clients, columns, orphans, db, pool, lifecycle, clock, tx >>

OwnedStored(id) == {x \in DOMAIN tables.tool_calls : tables.tool_calls[x].exchange_id = id}

DeleteStatements(id) ==
  IF backend = "sqlite" THEN SqDeleteStatements(id) ELSE << [op |-> "rowDelete", id |-> id] >>

\* DELETE waits for the transactions in flight that hold a row it removes:
\* the stored exchange row, or a stored tool call that row owns
DeleteWaits(id) ==
  /\ id \in DOMAIN tables.exchanges
  /\ \E c \in Callers :
       /\ tx[c].pc # "idle"
       /\ \/ id \in DOMAIN tx[c].w.exchanges
          \/ \E x \in DOMAIN tx[c].w.tool_calls : x \in OwnedStored(id)

deleteExchange(id, fault) ==
  /\ ~DeleteWaits(id)
  /\ IF Refusal # None
     THEN /\ tables' = tables
          /\ last' = [op |-> "deleteExchange", when |-> lifecycle, err |-> Refusal,
                      id |-> id]
     ELSE LET r == IF backend = "sqlite"
                   THEN SqDeleteExchange(tables, id, fault, foreignKeys)
                   ELSE PgDeleteExchange(tables, id, fault)
          IN  /\ tables' = r.t
              /\ last' = [op |-> "deleteExchange", when |-> lifecycle, err |-> Outcome(r.ok),
                          id |-> id]
  /\ UNCHANGED << backend, foreignKeys, sqliteDb, summaryFiles, run, clients, columns, orphans, db, pool, lifecycle, clock, tx >>

SearchByVector(t, q, limit, after, before, tie) ==
  IF backend = "sqlite"
  THEN SqSearchByVector(t, q, limit, after, before, tie)
  ELSE PgSearchByVector(t, q, limit, after, before, tie)

\* `last` keeps the identifiers the search returned, in order
searchByVector(q, limit, after, before, tie) ==
  /\ Quiet
  /\ tables' = tables
  /\ IF Refusal # None
     THEN last' = [op |-> "searchByVector", when |-> lifecycle, err |-> Refusal,
                   ids |-> << >>]
     ELSE LET r == SearchByVector(tables, q, limit, after, before, tie)
          IN  last' = [op |-> "searchByVector", when |-> lifecycle, err |-> Outcome(r.ok),
                       ids |-> [i \in 1..Len(r.rows) |-> r.rows[i].id]]
  /\ UNCHANGED << backend, foreignKeys, sqliteDb, summaryFiles, run, clients, columns, orphans, db, pool, lifecycle, clock, tx >>

SearchByText(t, query, limit, after, before, tie) ==
  IF backend = "sqlite"
  THEN SqSearchByText(t, query, limit, after, before, tie)
  ELSE PgSearchByText(t, query, limit, after, before, tie)

searchByText(query, limit, after, before, tie) ==
  /\ Quiet
  /\ tables' = tables
  /\ IF Refusal # None
     THEN last' = [op |-> "searchByText", when |-> lifecycle, err |-> Refusal,
                   ids |-> << >>]
     ELSE LET r == SearchByText(tables, query, limit, after, before, tie)
          IN  last' = [op |-> "searchByText", when |-> lifecycle, err |-> Outcome(r.ok),
                       ids |-> [i \in 1..Len(r.rows) |-> r.rows[i].id]]
  /\ UNCHANGED << backend, foreignKeys, sqliteDb, summaryFiles, run, clients, columns, orphans, db, pool, lifecycle, clock, tx >>

\* ------------------------------------------------------ the other operations
\* what a call that reads returns: the refusal, or `out`
Answer(op, out) ==
  IF Refusal # None
  THEN [op |-> op, when |-> lifecycle, err |-> Refusal]
  ELSE [op |-> op, when |-> lifecycle, err |-> None, out |-> out]

\* the provider's own state, which no operation but initialize and close touches
provider == << backend, foreignKeys, sqliteDb, summaryFiles, run, clients, columns, orphans, db, pool, lifecycle, clock, tx >>

getAllExchanges ==
  /\ last' = Answer("getAllExchanges", GetAllExchanges(tables))
  /\ UNCHANGED << tables, provider >>

getFileLastIndexed(archivePath) ==
  /\ last' = Answer("getFileLastIndexed", GetFileLastIndexed(tables, archivePath))
  /\ UNCHANGED << tables, provider >>

hasExchangesForArchive(archivePath) ==
  /\ last' = Answer("hasExchangesForArchive", HasExchangesForArchive(tables, archivePath))
  /\ UNCHANGED << tables, provider >>

getStats(tie) ==
  /\ last' = Answer("getStats", GetStats(tables, tie))
  /\ UNCHANGED << tables, provider >>

rawQuery(id) ==
  /\ last' = Answer("rawQuery", RawQueryToolCalls(tables, id))
  /\ UNCHANGED << tables, provider >>

rawExecute ==
  /\ Quiet
  /\ LET r == IF backend = "sqlite" THEN SqRawExecuteDeleteAll(tables, foreignKeys)
                                    ELSE PgRawExecuteDeleteAll(tables)
     IN  /\ tables' = IF Refusal # None THEN tables ELSE r.t
         /\ last' = IF Refusal # None
                    THEN [op |-> "rawExecute", when |-> lifecycle, err |-> Refusal]
                    ELSE [op |-> "rawExecute", when |-> lifecycle, err |-> Outcome(r.ok),
                          out |-> r.changes]
  /\ UNCHANGED provider

getSyncedFile(sourcePath) ==
  /\ backend = "postgresql"
  /\ last' = Answer("getSyncedFile", GetSyncedFile(tables, sourcePath))
  /\ UNCHANGED << tables, provider >>

setSyncedFile(sourcePath, mtimeHalves, sizeBytes) ==
  /\ backend = "postgresql"
  /\ tables' = IF Refusal # None THEN tables
               ELSE SetSyncedFile(tables, sourcePath, mtimeHalves, sizeBytes, clock)
  /\ last' = [op |-> "setSyncedFile", when |-> lifecycle, err |-> Refusal,
              sourcePath |-> sourcePath, mtimeHalves |-> mtimeHalves, sizeBytes |-> sizeBytes]
  /\ UNCHANGED provider

\* const existing = await this.getSyncedFile(sourcePath): the refusal is its
needsSync(sourcePath, mtimeHalves, sizeBytes) ==
  /\ backend = "postgresql"
  /\ last' = Answer("needsSync", NeedsSync(tables, sourcePath, mtimeHalves, sizeBytes))
  /\ UNCHANGED << tables, provider >>

getSummary(sessionId) ==
  /\ backend = "postgresql"
  /\ last' = Answer("getSummary", GetSummary(tables, sessionId))
  /\ UNCHANGED << tables, provider >>

hasSummary(sessionId) ==
  /\ backend = "postgresql"
  /\ last' = Answer("hasSummary", HasSummary(tables, sessionId))
  /\ UNCHANGED << tables, provider >>

setSummary(sessionId, project, summary) ==
  /\ backend = "postgresql"
  /\ tables' = IF Refusal # None THEN tables
               ELSE SetSummary(tables, sessionId, project, summary, clock)
  /\ last' = [op |-> "setSummary", when |-> lifecycle, err |-> Refusal,
              sessionId |-> sessionId, project |-> project, summary |-> summary]
  /\ UNCHANGED provider

getSessionsNeedingSummaries(limit) ==
  /\ backend = "postgresql"
  /\ \E rows \in GetSessionsNeedingSummaries(tables, limit) :
       last' = Answer("getSessionsNeedingSummaries", rows)
  /\ UNCHANGED << tables, provider >>

\* ------------------------------------- the server insertExchange, stepwise
\* A call in flight: the statements of its transaction, the index i of the
\* next one, and w, the rows it has written and not yet committed.  `tables`
\* is what every other connection reads.
NoWrites == [exchanges |-> Empty, tool_calls |-> Empty]

\* what the transaction itself reads: the committed rows under its own writes
View(c) ==
  [tables EXCEPT !.exchanges = Overlay(@, tx[c].w.exchanges),
                 !.tool_calls = Overlay(@, tx[c].w.tool_calls)]

\* a row written by another transaction in flight is locked until that one ends
Locked(c, table, key) ==
  \E d \in Callers \ {c} : tx[d].pc # "idle" /\ key \in DOMAIN tx[d].w[table]

\* inflight: the callers whose calls held a client when this call ended
Returned(e, v, err) ==
  [op |-> "insertExchange", when |-> lifecycle, err |-> err, e |-> e, v |-> v,
   old |-> OldRow(e.id), inflight |-> {d \in Callers : tx[d].pc # "idle"}]

\* pool.connect() hands out a client while fewer than max are checked out;
\* otherwise the call waits for a release
ClientFree == clients.out < clients.max
CheckOut(p) == [p EXCEPT !.out = @ + 1]
\* a call that ends without giving its client back
KeepClient(p) == p
\* finally { client.release() }
Release(p) == [p EXCEPT !.out = @ - 1]

\* if (!this.pool) throw ...; const client = await this.pool.connect();
\* await client.query('BEGIN')
TxBegin(c, e, v, fault) ==
  /\ backend = "postgresql"
  /\ tx[c].pc = "idle"
  /\ IF Refusal # None
     THEN /\ last' = Returned(e, v, Refusal)
          /\ tx' = tx
          /\ clients' = clients
     ELSE /\ ClientFree
          /\ clients' = CheckOut(clients)
          /\ last' = last
          /\ tx' = [tx EXCEPT ![c] = [pc |-> IF fault THEN "failed" ELSE "run", e |-> e, v |-> v,
                                      stmts |-> PgInsertStatements(e, v, clock), i |-> 2,
                                      w |-> NoWrites]]
  /\ UNCHANGED << backend, foreignKeys, sqliteDb, summaryFiles, run, columns, orphans, db, pool, tables, lifecycle, clock >>

\* the next INSERT ... ON CONFLICT (id) DO UPDATE of the transaction
TxStatement(c, fault) ==
  /\ tx[c].pc = "run"
  /\ LET s == tx[c].stmts[tx[c].i]
         key == IF s.op = "exchange" THEN s.e.id ELSE s.tc.id
         table == IF s.op = "exchange" THEN "exchanges" ELSE "tool_calls"
         r == PgExec(View(c), s)
     IN  /\ s.op \in {"exchange", "tool"}
         /\ ~Locked(c, table, key)
         /\ tx' = [tx EXCEPT ![c] =
                     IF fault \/ ~r.ok
                     THEN [@ EXCEPT !.pc = "failed"]
                     ELSE [@ EXCEPT !.i = @ + 1, !.w[table] = Put(@, key, r.t[table][key])]]
  /\ UNCHANGED << backend, foreignKeys, sqliteDb, summaryFiles, run, clients, columns, orphans, db, pool, tables, lifecycle, clock, last >>

\* await client.query('COMMIT'); finally { client.release() }
TxCommit(c, fault) ==
  /\ tx[c].pc = "run"
  /\ tx[c].stmts[tx[c].i].op = "COMMIT"
  /\ IF fault
     THEN /\ tx' = [tx EXCEPT ![c].pc = "failed"]
          /\ UNCHANGED << tables, last, clients >>
     ELSE /\ tables' = View(c)
          /\ last' = Returned(tx[c].e, tx[c].v, None)
          /\ tx' = [tx EXCEPT ![c] = Idle]
          /\ clients' = Release(clients)
  /\ UNCHANGED << backend, foreignKeys, sqliteDb, summaryFiles, run, columns, orphans, db, pool, lifecycle, clock >>

\* catch (error) { await client.query('ROLLBACK'); throw error; }
\* finally { client.release() }
\* fault: the ROLLBACK statement itself fails (the connection broke); its error
\* is the one thrown and the server drops what the transaction wrote
TxRollback(c, fault) ==
  /\ tx[c].pc = "failed"
  /\ tables' = Rollback(tables, View(c))
  /\ last' = [x \in DOMAIN Returned(tx[c].e, tx[c].v, StatementFailed) \cup {"rollback"} |->
                IF x = "rollback" THEN (IF fault THEN StatementFailed ELSE None)
                ELSE Returned(tx[c].e, tx[c].v, StatementFailed)[x]]
  /\ tx' = [tx EXCEPT ![c] = Idle]
  /\ clients' = Release(clients)
  /\ UNCHANGED << backend, foreignKeys, sqliteDb, summaryFiles, run, columns, orphans, db, pool, lifecycle, clock >>

\* ---------------------------------------------------------------- migration
\* The rows of the embedded file: e1 is the latest, e2 and e3 share a timestamp.
MigIds == {"e1", "e2", "e3"}
MigExchange(id) ==
  [id |-> id, timestamp |-> IF id = "e1" THEN 2 ELSE 1,
   project |-> IF id = "e3" THEN "pB" ELSE "pA",
   userMessage |-> << "D", "o" >>, assistantMessage |-> << "k" >>,
   archivePath |-> IF id = "e3" THEN "a2" ELSE "a1",
   sessionId |-> IF id = "e2" THEN Undefined ELSE "s1", isSidechain |-> id = "e2",
   toolCalls |-> << >>]

\* ORDER BY e.timestamp: rows of one timestamp come in the database's order
MigOrders ==
  {f \in [MigIds -> 1..Cardinality(MigIds)] : \A a, b \in MigIds : a # b => f[a] # f[b]}

\* exchangeStmt.all(): SELECT ... FROM exchanges e ORDER BY e.timestamp
AllExchanges(src, tie) ==
  LET ids == OrderBy(DOMAIN src.exchanges,
                     [x \in DOMAIN src.exchanges |-> src.exchanges[x].timestamp], tie)
  IN  [k \in 1..Len(ids) |-> src.exchanges[ids[k]]]

\* toolCallsStmt.all(row.id).map(tc => ({ id, exchangeId, toolName, ... }))
RECURSIVE ToolCallsOf(_, _)
ToolCallsOf(src, S) ==
  IF S = {} THEN << >>
  ELSE LET x == CHOOSE y \in S : TRUE
       IN  << ToolCall(x, src.tool_calls[x].exchange_id, src.tool_calls[x].tool_name) >>
             \o ToolCallsOf(src, S \ {x})

\* x || undefined
OrUndefined(x) == IF x \in {Null, ""} THEN Undefined ELSE x

\* the ConversationExchange built from a row of the embedded file
ExchangeOfRow(src, row) ==
  [id |-> row.id, project |-> row.project, timestamp |-> row.timestamp,
   userMessage |-> row.user_message, assistantMessage |-> row.assistant_message,
   archivePath |-> row.archive_path, sessionId |-> OrUndefined(row.session_id),
   isSidechain |-> row.is_sidechain # 0,
   toolCalls |-> ToolCallsOf(src, {x \in DOMAIN src.tool_calls :
                                     src.tool_calls[x].exchange_id = row.id})]

\* Array.from(new Float32Array(vectorRow.embedding.buffer))
EmbeddingOf(src, id) == [i \in DOMAIN src.vec_exchanges[id] |-> src.vec_exchanges[id][i]]

\* the state of a run: the server tables t, the three counters, the
\* identifiers of the rows the loop has reached, and the Progress lines logged
MigStart(t) ==
  [t |-> t, processed |-> 0, skipped |-> 0, errors |-> 0, visited |-> << >>, log |-> << >>]

\* faults: the steps that throw, as pairs << row id, step >>; the steps of a
\* row are "read" (vectorStmt.get, toolCallsStmt.all), "parse" (JSON.parse of a
\* tool call's input) and "insert" (pgProvider.insertExchange)
Throws(faults, id, step) == << id, step >> \in faults

ToolsOf(src, id) == {x \in DOMAIN src.tool_calls : src.tool_calls[x].exchange_id = id}

\* skipped++ / processed++ / errors++, the row being reached either way
Count(m, counter, id) ==
  [m EXCEPT ![counter] = @ + 1, !.visited = Append(@, id)]

\* a loop body that migrates a row whether it has a vector entry or not
MigrateRowUnchecked(src, m, row, dryRun, faults, now) ==
  IF Throws(faults, row.id, "read") THEN Count(m, "errors", row.id)
  ELSE IF Throws(faults, row.id, "parse") /\ ToolsOf(src, row.id) # {}
  THEN Count(m, "errors", row.id)
  ELSE LET r == IF dryRun THEN [ok |-> TRUE, t |-> m.t]
                ELSE PgInsertExchange(m.t, ExchangeOfRow(src, row), << 0, 0 >>, now,
                                      IF Throws(faults, row.id, "insert") THEN 2 ELSE 0)
       IN  IF r.ok THEN Count([m EXCEPT !.t = r.t], "processed", row.id)
           ELSE Count(m, "errors", row.id)

\* a loop body that writes to the server in a dry run too
MigrateRowAlwaysWrites(src, m, row, dryRun, faults, now) ==
  IF Throws(faults, row.id, "read") THEN Count(m, "errors", row.id)
  ELSE IF row.id \notin DOMAIN src.vec_exchanges THEN Count(m, "skipped", row.id)
  ELSE IF Throws(faults, row.id, "parse") /\ ToolsOf(src, row.id) # {}
  THEN Count(m, "errors", row.id)
  ELSE LET r == PgInsertExchange(m.t, ExchangeOfRow(src, row), EmbeddingOf(src, row.id),
                                 now, IF Throws(faults, row.id, "insert") THEN 2 ELSE 0)
       IN  IF r.ok THEN Count([m EXCEPT !.t = r.t], "processed", row.id)
           ELSE Count(m, "errors", row.id)

\* the body of `for (const row of batch)`, all of it inside try: skipped++ and
\* continue when the row has no vector entry; otherwise the tool calls are read
\* and parsed, insertExchange is called unless dryRun, then processed++;
\* catch: errors++ whatever step threw
MigrateRow(src, m, row, dryRun, faults, now) ==
  IF Throws(faults, row.id, "read") THEN Count(m, "errors", row.id)
  ELSE IF row.id \notin DOMAIN src.vec_exchanges THEN Count(m, "skipped", row.id)
  ELSE IF Throws(faults, row.id, "parse") /\ ToolsOf(src, row.id) # {}
  THEN Count(m, "errors", row.id)
  ELSE LET r == IF dryRun THEN [ok |-> TRUE, t |-> m.t]
                ELSE PgInsertExchange(m.t, ExchangeOfRow(src, row), EmbeddingOf(src, row.id),
                                      now, IF Throws(faults, row.id, "insert") THEN 2 ELSE 0)
       IN  IF r.ok THEN Count([m EXCEPT !.t = r.t], "processed", row.id)
           ELSE Count(m, "errors", row.id)

\* a loop over the batch that a failing row ends
RECURSIVE MigrateBatchStopping(_, _, _, _, _, _, _)
MigrateBatchStopping(src, m, batch, k, dryRun, faults, now) ==
  IF k > Len(batch) \/ m.errors > 0 THEN m
  ELSE MigrateBatchStopping(src, MigrateRow(src, m, batch[k], dryRun, faults, now), batch,
                            k + 1, dryRun, faults, now)

\* for (const row of batch)
RECURSIVE MigrateBatch(_, _, _, _, _, _, _)
MigrateBatch(src, m, batch, k, dryRun, faults, now) ==
  IF k > Len(batch) THEN m
  ELSE MigrateBatch(src, MigrateRow(src, m, batch[k], dryRun, faults, now), batch, k + 1,
                    dryRun, faults, now)

\* a slice that leaves out the last row of each batch
SliceShort(s, i, j) == SubSeq(s, i + 1, IF j - 1 < Len(s) THEN j - 1 ELSE Len(s))
\* an index of Array.prototype.slice on an array of n elements: a negative one
\* counts from the end, and both ends are clamped
SliceIndex(n, k) == IF k < 0 THEN Max({n + k, 0}) ELSE Min({k, n})
\* allExchanges.slice(i, j)
Slice(s, i, j) ==
  IF SliceIndex(Len(s), i) < SliceIndex(Len(s), j)
  THEN SubSeq(s, SliceIndex(Len(s), i) + 1, SliceIndex(Len(s), j))
  ELSE << >>

\* console.log(`Progress: ${i + batch.length}/${totalExchanges} ... - ${processed}
\* migrated, ${skipped} skipped, ${errors} errors`)
Progress(m, done) ==
  [m EXCEPT !.log = Append(@, [done |-> done, processed |-> m.processed,
                               skipped |-> m.skipped, errors |-> m.errors])]

\* for (let i = 0; i < allExchanges.length; i += batchSize)
RECURSIVE MigrateFrom(_, _, _, _, _, _, _, _)
MigrateFrom(src, m, all, i, batchSize, dryRun, faults, now) ==
  IF ~(i < Len(all)) THEN m
  ELSE LET batch == Slice(all, i, i + batchSize)
           after == MigrateBatch(src, m, batch, 1, dryRun, faults, now)
       IN  MigrateFrom(src, Progress(after, i + Len(batch)),
                       all, i + batchSize, batchSize, dryRun, faults, now)

\* the loop followed for at most `fuel` iterations: whether it ended, and the
\* counters and the server store it has reached
RECURSIVE MigrateWithin(_, _, _, _, _, _, _, _, _)
MigrateWithin(src, m, all, i, batchSize, dryRun, faults, now, fuel) ==
  IF ~(i < Len(all)) THEN [ended |-> TRUE, m |-> m]
  ELSE IF fuel = 0 THEN [ended |-> FALSE, m |-> m]
  ELSE LET batch == Slice(all, i, i + batchSize)
           after == MigrateBatch(src, m, batch, 1, dryRun, faults, now)
       IN  MigrateWithin(src, Progress(after, i + Len(batch)),
                         all, i + batchSize, batchSize, dryRun, faults, now, fuel - 1)

\* i += batchSize moves the index by the same amount each time, so an index
\* that has not passed the last of the n rows after n iterations never will:
\* the loop followed for n iterations
MigrateLoop(src, t, batchSize, dryRun, faults, tie, now) ==
  MigrateWithin(src, MigStart(t), AllExchanges(src, tie), 0, batchSize, dryRun, faults, now,
                Cardinality(DOMAIN src.exchanges))

\* migrateToPostgres(url, { batchSize, dryRun }) from the first row to the last
Migrate(src, t, batchSize, dryRun, faults, tie, now) ==
  MigrateFrom(src, MigStart(t), AllExchanges(src, tie), 0, batchSize, dryRun, faults, now)

\* sqliteExchanges === pgStats.totalExchanges in place of a comparison that
\* accepts a server holding more
VerifyAtLeast(src, t, tie) ==
  LET sqliteExchanges == Cardinality(DOMAIN src.exchanges)
      pgStats == GetStats(t, tie)
  IN  [match |-> sqliteExchanges <= pgStats.totalExchanges,
       missing |-> sqliteExchanges - pgStats.totalExchanges]

\* verifyMigration: match, and the number logged as Missing when it is false
VerifyMigration(src, t, tie) ==
  LET sqliteExchanges == Cardinality(DOMAIN src.exchanges)
      pgStats == GetStats(t, tie)
  IN  [match |-> sqliteExchanges = pgStats.totalExchanges,
       missing |-> sqliteExchanges - pgStats.totalExchanges]

\* the call is still in its loop, never to leave it
NoReturn == "no return"

\* The handles a run opens before its try block: the embedded file (new
\* Database) and, through initialize(), the pool of a provider of its own,
\* which new Pool assigns before the first statement that can fail.  A dry run
\* of migrateToPostgres does not initialize the provider.
OpenedHandles(dryRun) == {"sqliteDb"} \cup (IF dryRun THEN {} ELSE {"pgProvider"})

\* finally { sqliteDb.close(); if (!dryRun) await pgProvider.close(); } runs
\* for every exit from the try block and for none before it: initialize() is
\* awaited above the try
ClosedHandles(dryRun, fault) ==
  IF ~dryRun /\ fault = "open" THEN {} ELSE OpenedHandles(dryRun)

\* The run uses a provider of its own (new PostgresProvider, initialize unless
\* dryRun, close in finally); fault "open": its initialize() rejects and the
\* call throws before it reads a row; fault "count": the first statement of
\* the try block throws.  With a batchSize that does not move the loop index
\* forward the call never returns.
migrateToPostgres(batchSize, dryRun, faults, tie, fault) ==
  /\ backend = "postgresql"
  /\ Quiet
  /\ IF (~dryRun /\ fault = "open") \/ fault = "count"
     THEN /\ tables' = tables
          /\ last' = [op |-> "migrateToPostgres", when |-> lifecycle, err |-> StatementFailed,
                      fault |-> fault, opened |-> OpenedHandles(dryRun),
                      closed |-> ClosedHandles(dryRun, fault)]
     ELSE \E r \in {MigrateLoop(sqliteDb, tables, batchSize, dryRun, faults, tie, clock)} :
            /\ tables' = r.m.t
            /\ last' = IF r.ended
                       THEN [op |-> "migrateToPostgres", when |-> lifecycle, err |-> None,
                             batchSize |-> batchSize, dryRun |-> dryRun, faults |-> faults,
                             before |-> tables, processed |-> r.m.processed,
                             skipped |-> r.m.skipped, errors |-> r.m.errors,
                             visited |-> r.m.visited, log |-> r.m.log,
                             opened |-> OpenedHandles(dryRun),
                             closed |-> ClosedHandles(dryRun, fault)]
                       ELSE [op |-> "migrateToPostgres", when |-> lifecycle, err |-> NoReturn,
                             batchSize |-> batchSize, dryRun |-> dryRun, faults |-> faults,
                             before |-> tables]
  /\ UNCHANGED provider

\* verifyMigration opens both stores, compares and closes; fault "open": the
\* server cannot be reached and initialize() rejects; fault "count": the
\* first statement of the try block throws
verifyMigration(tie, fault) ==
  /\ backend = "postgresql"
  /\ Quiet
  /\ last' = IF fault \in {"open", "count"}
             THEN [op |-> "verifyMigration", when |-> lifecycle, err |-> StatementFailed,
                   fault |-> fault, opened |-> OpenedHandles(FALSE),
                   closed |-> ClosedHandles(FALSE, fault)]
             ELSE [op |-> "verifyMigration", when |-> lifecycle, err |-> None,
                   out |-> VerifyMigration(sqliteDb, tables, tie),
                   opened |-> OpenedHandles(FALSE), closed |-> ClosedHandles(FALSE, fault)]
  /\ UNCHANGED << tables, provider >>

\* ------------------------------------------------------------ configuration
\* process.env: each variable is Undefined (not set) or a string
Envs ==
  [provider : {Undefined, "sqlite", "postgresql", "mysql"},
   url : {Undefined, "", "postgres://env"},
   poolSize : {Undefined, "", "5"},
   ssl : {Undefined, "true", "yes"}]

\* loadConfigFile(): null (no file, or one that does not parse) or the parsed
\* object; an absent member is the empty set, a present one a singleton
NoFile == [exists |-> FALSE, provider |-> Undefined, postgresql |-> FALSE,
           url |-> Undefined, poolSize |-> {}, ssl |-> {}]
ConfigFiles ==
  {NoFile} \cup
  {f \in [exists : {TRUE}, provider : {Undefined, "sqlite", "postgresql"},
          postgresql : BOOLEAN, url : {Undefined, "postgres://file"},
          poolSize : {{}, {5}}, ssl : {{}, {TRUE}}] :
     ~f.postgresql => f.url = Undefined /\ f.poolSize = {} /\ f.ssl = {}}

\* parseInt(s, 10) of the decimal strings in use
ParseInt == [s \in {"5", "10"} |-> IF s = "5" THEN 5 ELSE 10]

\* x || y for strings: undefined and '' are falsy
OrElse(x, y) == IF x \in {Undefined, ""} THEN y ELSE x

\* x ?? y
Coalesce(S, y) == IF S = {} THEN y ELSE CHOOSE x \in S : TRUE

EnvUrlRequired == "EPISODIC_MEMORY_POSTGRES_URL is required"
FileUrlRequired == "PostgreSQL URL is required in config file"

SqliteConfig == [err |-> None, provider |-> "sqlite"]
PostgresConfig(url, poolSize, ssl) ==
  [err |-> None, provider |-> "postgresql", url |-> url, poolSize |-> poolSize, ssl |-> ssl]

\* a resolution that asks the config file first
GetDatabaseConfigFileFirst(env, file) ==
  IF file.exists /\ file.provider = "postgresql"
  THEN IF ~file.postgresql \/ file.url \in {Undefined, ""}
       THEN [err |-> FileUrlRequired]
       ELSE PostgresConfig(file.url, Coalesce(file.poolSize, 10), Coalesce(file.ssl, FALSE))
  ELSE IF env.provider = "postgresql"
  THEN IF env.url \in {Undefined, ""}
       THEN [err |-> EnvUrlRequired]
       ELSE PostgresConfig(env.url, ParseInt[OrElse(env.poolSize, "10")], env.ssl = "true")
  ELSE SqliteConfig

\* getDatabaseConfig(): environment, then config file, then SQLite
GetDatabaseConfig(env, file) ==
  IF env.provider = "postgresql"
  THEN IF env.url \in {Undefined, ""}
       THEN [err |-> EnvUrlRequired]
       ELSE PostgresConfig(env.url, ParseInt[OrElse(env.poolSize, "10")], env.ssl = "true")
  ELSE IF env.provider = "sqlite" THEN SqliteConfig
  ELSE IF file.exists /\ file.provider = "postgresql"
  THEN IF ~file.postgresql \/ file.url \in {Undefined, ""}
       THEN [err |-> FileUrlRequired]
       ELSE PostgresConfig(file.url, Coalesce(file.poolSize, 10), Coalesce(file.ssl, FALSE))
  ELSE SqliteConfig

getDatabaseConfig(env, file) ==
  /\ last' = [op |-> "getDatabaseConfig", when |-> lifecycle, env |-> env, file |-> file,
              out |-> GetDatabaseConfig(env, file)]
  /\ UNCHANGED << tables, provider >>

\* ------------------------------------------------------------ processBatch
\* the conversations that need a summary: their file names, in list order
Convs == << "c1", "c2", "c3", "c4", "c5" >>

\* extractSessionIdFromPath(conv.sourcePath): null when the file name is not a
\* session id
SessionOf(conv) == IF conv \in {"c1", "c4"} THEN "s1" ELSE IF conv = "c2" THEN "s2" ELSE Null

\* conv.project: the directory of the projects directory that holds the file
ProjectOf(conv) == IF conv \in {"c4", "c5"} THEN "pB" ELSE "pA"

\* summarizeConversation(conv.exchanges), when it succeeds
SummaryText(conv) ==
  [c1 |-> "sum of c1", c2 |-> "sum of c2", c3 |-> "sum of c3", c4 |-> "sum of c4",
   c5 |-> "sum of c5"][conv]

\* a slice that takes every remaining item
SliceRest(n, i, c) == (i + 1)..n
\* items.slice(i, i + concurrency): the positions (from 1) of the items taken
\* from a list of n items
SliceOf(n, i, c) == (i + 1)..Min({i + c, n})

\* for (let i = 0; i < items.length; i += concurrency) { batch = items.slice(...);
\* batch.map(processor) ... }: the loop head and the start of the calls of one
\* group; the function returns when the loop ends
StartGroup(r) ==
  IF r.i < Len(r.items)
  THEN LET batch == SliceOf(Len(r.items), r.i, r.c)
       IN  [r EXCEPT !.pc = "awaiting", !.inflight = batch,
                     !.started = @ \o [k \in 1..Cardinality(batch) |-> r.i + k]]
  ELSE [r EXCEPT !.pc = "returned"]

\* processBatch(items, processor, concurrency), up to its first await
processBatch(items, c) ==
  /\ run.pc \in {"idle", "returned"}
  /\ Quiet
  /\ run' = StartGroup([pc |-> "running", items |-> items, c |-> c, i |-> 0,
                        inflight |-> {}, batchResults |-> << >>, results |-> << >>,
                        started |-> << >>, job |-> "processBatch"])
  /\ last' = [op |-> "processBatch", when |-> lifecycle, err |-> None]
  /\ UNCHANGED << backend, foreignKeys, sqliteDb, summaryFiles, clients, columns, orphans, db, pool, tables,
                  lifecycle, clock, tx >>

\* whether the processor of a conversation writes its summary to the store:
\* usePostgres && provider.setSummary, and the path holds a session id
WritesSummary(conv) == backend = "postgresql" /\ SessionOf(conv) # Null

\* one processor call settles: the summary text, written with setSummary on
\* the server backend (to a file otherwise), or null when summarizeConversation
\* or the write threw (summarized: whether the summarizer succeeded)
settle(k, summarized) ==
  /\ run.pc = "awaiting"
  /\ k \in run.inflight
  /\ LET conv == run.items[k]
         ok == summarized /\ (WritesSummary(conv) => Refusal = None)
     IN  /\ tables' = IF ok /\ WritesSummary(conv)
                      THEN SetSummary(tables, SessionOf(conv), ProjectOf(conv), SummaryText(conv), clock)
                      ELSE tables
         /\ summaryFiles' = IF ok /\ backend # "postgresql"
                            THEN summaryFiles \cup {conv} ELSE summaryFiles
         /\ run' = [run EXCEPT !.inflight = @ \ {k},
                               !.batchResults = Put(@, k, IF ok THEN SummaryText(conv) ELSE Null)]
  /\ last' = [op |-> "processor", when |-> lifecycle, err |-> None, item |-> k]
  /\ UNCHANGED << backend, foreignKeys, sqliteDb, clients, columns, orphans, db, pool, lifecycle,
                  clock, tx >>

\* await Promise.all(...) resumes when every call of the group has settled:
\* results.push(...batchResults) in the order of the batch, i += concurrency,
\* then the next group or the return
settled ==
  /\ run.pc = "awaiting"
  /\ run.inflight = {}
  /\ LET batch == SliceOf(Len(run.items), run.i, run.c)
     IN  run' = StartGroup([run EXCEPT
                  !.results = @ \o [k \in 1..Cardinality(batch) |-> run.batchResults[run.i + k]],
                  !.batchResults = << >>,
                  !.i = @ + run.c])
  /\ last' = [op |-> "settled", when |-> lifecycle, err |-> None]
  /\ UNCHANGED << backend, foreignKeys, sqliteDb, summaryFiles, clients, columns, orphans, db, pool, tables,
                  lifecycle, clock, tx >>

\* ------------------------------------------------------ the indexing pipeline
\* path.join(ARCHIVE_DIR, project, file)
ArchivePath(conv) == << ProjectOf(conv), conv >>

\* the exchanges parseConversation(sourcePath, project, archivePath) returns:
\* they carry the project and the archive path of the call, and no two files
\* yield the same exchange identifier; c5 holds no exchange
ParsedExchange(conv, n) ==
  [id |-> << conv, n >>, timestamp |-> 1, project |-> ProjectOf(conv),
   userMessage |-> << "D", "o" >>, assistantMessage |-> << "k" >>,
   archivePath |-> ArchivePath(conv),
   sessionId |-> IF SessionOf(conv) = Null THEN Undefined ELSE SessionOf(conv),
   isSidechain |-> FALSE, toolCalls |-> << >>]
ParseConversation(conv) ==
  IF conv = "c5" THEN << >>
  ELSE IF conv = "c2" THEN << ParsedExchange(conv, 1), ParsedExchange(conv, 2) >>
  ELSE << ParsedExchange(conv, 1) >>

\* generateExchangeEmbedding(userMessage, assistantMessage, toolNames)
ExchangeEmbedding(e) == << 1, 0 >>

\* readdirSync order: the projects, and the files of each, by name
ConvsIn(S) == SelectSeq(Convs, LAMBDA conv : conv \in S)

\* a collecting loop that parses every file within the days limit
ParsedAll(recent, t) == recent
\* indexUnprocessed, the collecting loop: the files within the days limit
\* that hasExchangesForArchive(archivePath) does not report are parsed ...
ParsedBy(recent, t) == {conv \in recent : ~HasExchangesForArchive(t, ArchivePath(conv))}
\* ... and those with an exchange are pushed to unprocessed
Unprocessed(recent, t) ==
  SelectSeq(ConvsIn(ParsedBy(recent, t)), LAMBDA conv : Len(ParseConversation(conv)) # 0)

\* indexConversations, the collecting loop of the one project it is limited
\* to: every file within the days limit is parsed, those with an exchange are
\* pushed to toProcess
ToProcess(limitToProject, recent) ==
  SelectSeq(ConvsIn({conv \in recent : ProjectOf(conv) = limitToProject}),
            LAMBDA conv : Len(ParseConversation(conv)) # 0)

\* the needsSummary filter's test: usePostgres && sessionId &&
\* provider.hasSummary ? await provider.hasSummary(sessionId)
\*                      : fs.existsSync(conv.summaryPath)
SummaryExists(conv, t, files) ==
  IF backend = "postgresql" /\ SessionOf(conv) # Null
  THEN HasSummary(t, SessionOf(conv))
  ELSE conv \in files

\* a filter that lets every conversation through
NeedsSummaryAll(convs, t, files) == convs
NeedsSummary(convs, t, files) ==
  SelectSeq(convs, LAMBDA conv : ~SummaryExists(conv, t, files))

\* the first part of a run, up to the first await of processBatch (or to the
\* insert loop when processBatch is not called): noSummaries, or nothing
\* needs a summary
StartRun(job, recent, parsed, convs, c, noSummaries) ==
  StartGroup([pc |-> "running",
              items |-> IF noSummaries THEN << >>
                        ELSE NeedsSummary(convs, tables, summaryFiles),
              c |-> c, i |-> 0, inflight |-> {}, batchResults |-> << >>,
              results |-> << >>, started |-> << >>,
              job |-> job, files |-> recent, parsed |-> parsed, convs |-> convs,
              noSummaries |-> noSummaries])

\* indexUnprocessed(concurrency, noSummaries, days), with the provider
\* getProvider() returns open; recent: the files isWithinDaysLimit accepts.
\* With nothing unprocessed the call closes the provider and returns.
indexUnprocessed(recent, c, noSummaries) ==
  /\ run.pc \in {"idle", "done", "failed"}
  /\ Quiet
  /\ Refusal = None
  /\ LET unprocessed == Unprocessed(recent, tables)
         none == Len(unprocessed) = 0
     IN  /\ run' = IF none
                   THEN [pc |-> "done", job |-> "indexUnprocessed", files |-> recent,
                         parsed |-> ParsedBy(recent, tables), convs |-> unprocessed,
                         started |-> << >>, items |-> << >>, noSummaries |-> noSummaries]
                   ELSE StartRun("indexUnprocessed", recent, ParsedBy(recent, tables),
                                 unprocessed, c, noSummaries)
         /\ IF none /\ backend = "sqlite"
            THEN db' = CloseHandle(db) /\ pool' = pool /\ lifecycle' = "closed"
            ELSE IF none
            THEN db' = db /\ pool' = "ending" /\ lifecycle' = "closing"
            ELSE db' = db /\ pool' = pool /\ lifecycle' = lifecycle
  /\ last' = [op |-> "indexUnprocessed", when |-> lifecycle, err |-> None]
  /\ UNCHANGED << backend, foreignKeys, sqliteDb, summaryFiles, clients, columns, orphans,
                  tables, clock, tx >>

\* indexConversations(limitToProject, undefined, concurrency, noSummaries,
\* days): the files of the project are parsed whether or not the store holds
\* their exchanges
indexConversations(limitToProject, recent, c, noSummaries) ==
  /\ run.pc \in {"idle", "done", "failed"}
  /\ Quiet
  /\ Refusal = None
  /\ LET inProject == {conv \in recent : ProjectOf(conv) = limitToProject}
     IN  run' = StartRun("indexConversations", inProject, inProject,
                         ToProcess(limitToProject, recent), c, noSummaries)
  /\ last' = [op |-> "indexConversations", when |-> lifecycle, err |-> None]
  /\ UNCHANGED << backend, foreignKeys, sqliteDb, summaryFiles, clients, columns, orphans,
                  db, pool, tables, lifecycle, clock, tx >>

\* for (const conv of ...) for (const exchange of conv.exchanges)
\*   await provider.insertExchange(exchange, embedding, toolNames):
\* the exchanges of the conversations from position i on; the failing-th
\* insert throws at its first statement and ends the loop
RECURSIVE ExchangesOf(_, _)
ExchangesOf(convs, i) ==
  IF i > Len(convs) THEN << >> ELSE ParseConversation(convs[i]) \o ExchangesOf(convs, i + 1)

RECURSIVE InsertAll(_, _, _, _, _)
InsertAll(t, exchanges, k, failing, now) ==
  IF k > Len(exchanges) THEN [ok |-> TRUE, t |-> t]
  ELSE LET e == exchanges[k]
           fault == IF k = failing THEN 1 ELSE 0
           r == IF backend = "sqlite"
                THEN SqInsertExchange(t, e, ExchangeEmbedding(e), now, fault, foreignKeys)
                ELSE PgInsertExchange(t, e, ExchangeEmbedding(e), now, fault)
       IN  IF r.ok THEN InsertAll(r.t, exchanges, k + 1, failing, now)
           ELSE [ok |-> FALSE, t |-> r.t]

\* the rest of a run once processBatch has returned: the insert loop, then
\* closeProvider().  An insert that throws ends the call with the provider
\* still open.
indexEmbeddings(failing) ==
  /\ run.pc = "returned"
  /\ run.job # "processBatch"
  /\ \E r \in {InsertAll(tables, ExchangesOf(run.convs, 1), 1, failing, clock)} :
       /\ tables' = r.t
       /\ run' = [run EXCEPT !.pc = IF r.ok THEN "done" ELSE "failed"]
       /\ IF r.ok /\ backend = "sqlite"
          THEN db' = CloseHandle(db) /\ pool' = pool /\ lifecycle' = "closed"
          ELSE IF r.ok
          THEN db' = db /\ pool' = "ending" /\ lifecycle' = "closing"
          ELSE db' = db /\ pool' = pool /\ lifecycle' = lifecycle
       /\ last' = [op |-> "indexEmbeddings", when |-> lifecycle, err |-> Outcome(r.ok)]
  /\ UNCHANGED << backend, foreignKeys, sqliteDb, summaryFiles, clients, columns, orphans,
                  clock, tx >>

\* ----------------------------------------------------------- specifications
Limits == 0..MaxLimit
Times == 0..MaxTs

\* Spec: one caller writing and deleting exchanges, one call at a time; any
\* statement of a call may fail.  The exchanges differ in their columns and
\* tool calls, not in their timestamps.
WriteInputs == {e \in ExchangeInputs : e.timestamp = 1}

\* The embedding of an exchange is computed from its messages; a generator of
\* another model yields a vector of another width.
EmbeddingsOf(e) == IF e.project = "pA" THEN {<< 0, 0 >>, ShortVector} ELSE {<< 1, 0 >>}

Next ==
  \/ Handle # "open" /\ initialize(None)
  \/ \E e \in WriteInputs : \E v \in EmbeddingsOf(e) :
       \E f \in FaultPoints(InsertStatements(e, v)) : insertExchange(e, v, f)
  \/ \E id \in Ids : \E f \in FaultPoints(DeleteStatements(id)) : deleteExchange(id, f)

Spec == Init /\ [][Next]_vars

\* SpecSearch: exchanges of different timestamps and embeddings are stored and
\* deleted without failures, and searched.
SearchInputs ==
  {e \in ExchangeInputs : e.toolCalls = << >> /\ e.project = "pA"}

TextQueries == {<< "d" >>, << "D", "o" >>, << "p" >>}

SearchVectors == {<< 0, 0 >>, ShortVector}
StoredVectors == {<< 0, 0 >>, << 1, 0 >>, ShortVector}
AskedLimits == {0, 1}

NextSearch ==
  \/ Handle # "open" /\ initialize(None)
  \/ \E e \in SearchInputs, v \in StoredVectors : insertExchange(e, v, 0)
  \/ \E id \in Ids : deleteExchange(id, 0)
  \/ \E q \in SearchVectors, l \in AskedLimits, a \in Times, tie \in TieOrders :
       searchByVector(q, l, a, 0, tie)
  \/ \E l \in AskedLimits, b \in Times, tie \in TieOrders :
       searchByText(<< "d" >>, l, 0, b, tie)

SpecSearch == Init /\ [][NextSearch]_vars

\* SpecTx: the server backend with two callers whose insertExchange calls
\* interleave statement by statement, each statement able to fail, and
\* deletions in between.  An identifier comes with its tool calls.
TxTools(id) ==
  IF id = "e1" THEN << ToolCall("t1", id, "Read"), ToolCall("t2", id, "Write") >> ELSE << >>

TxInputs == {e \in WriteInputs : e.toolCalls = TxTools(e.id)}

InitTx == Init /\ backend = "postgresql"

NextTx ==
  \/ Handle # "open" /\ initialize(None)
  \/ \E c \in Callers, e \in TxInputs, v \in {<< 0, 0 >>, ShortVector}, f \in BOOLEAN :
       TxBegin(c, e, v, f)
  \/ \E c \in Callers, f \in BOOLEAN : TxStatement(c, f)
  \/ \E c \in Callers, f \in BOOLEAN : TxCommit(c, f)
  \/ \E c \in Callers, f \in BOOLEAN : TxRollback(c, f)
  \/ \E id \in Ids : deleteExchange(id, 0)

SpecTx == InitTx /\ [][NextTx]_vars

\* SpecLifecycle: every operation of the provider, called in every stage of
\* its life: before initialize(), after an initialize() that failed, while
\* open, while closing and after close().
LifeInputs == {e \in WriteInputs : e.id = "e1" /\ Len(e.toolCalls) <= 1}
SourcePaths == {"a1"}
MtimeHalves == {2, 3}
Sizes == {1, 2}
Sessions == {"s1"}
Summaries == {"sum1", "sum2"}

Operations ==
  {"insertExchange", "deleteExchange", "getAllExchanges", "getFileLastIndexed",
   "hasExchangesForArchive", "searchByVector", "searchByText", "getStats", "rawQuery",
   "rawExecute", "getSyncedFile", "setSyncedFile", "needsSync", "getSummary", "hasSummary",
   "setSummary", "getSessionsNeedingSummaries"}

NextLifecycle ==
  \/ \E f \in {None, "open"} : initialize(f)
  \/ close
  \/ closed
  \/ \E e \in LifeInputs : insertExchange(e, << 0, 0 >>, 0)
  \/ deleteExchange("e1", 0)
  \/ getAllExchanges
  \/ \E a \in SourcePaths : getFileLastIndexed(a)
  \/ \E a \in SourcePaths : hasExchangesForArchive(a)
  \/ \E tie \in TieOrders : searchByVector(<< 0, 0 >>, 1, 0, 0, tie)
  \/ \E tie \in TieOrders : searchByText(<< "d" >>, 1, 0, 0, tie)
  \/ \E tie \in ProjectOrders : getStats(tie)
  \/ rawQuery("e1")
  \/ rawExecute
  \/ \E a \in SourcePaths : getSyncedFile(a)
  \/ \E a \in SourcePaths, m \in MtimeHalves, z \in Sizes : setSyncedFile(a, m, z)
  \/ \E a \in SourcePaths, m \in MtimeHalves, z \in Sizes : needsSync(a, m, z)
  \/ \E n \in Sessions : getSummary(n)
  \/ \E n \in Sessions : hasSummary(n)
  \/ \E n \in Sessions, p \in Projects, y \in Summaries : setSummary(n, p, y)
  \/ \E l \in AskedLimits : getSessionsNeedingSummaries(l)

SpecLifecycle == Init /\ [][NextLifecycle]_vars

\* SpecSync: source files are recorded as synced, with whole and fractional
\* modification times, and asked about.
SyncPaths == {"f1", "f2"}
SyncMtimes == {HalfMs(1), HalfMs(1) + 1, HalfMs(2)}

NextSync ==
  \/ Handle # "open" /\ initialize(None)
  \/ \E a \in SyncPaths : getSyncedFile(a)
  \/ \E a \in SyncPaths, m \in SyncMtimes, z \in Sizes : setSyncedFile(a, m, z)
  \/ \E a \in SyncPaths, m \in SyncMtimes, z \in Sizes : needsSync(a, m, z)

SpecSync == Init /\ [][NextSync]_vars

\* SpecSummaries: exchanges of two sessions, or of none, in either project are
\* stored and deleted, sessions are summarised, and the sessions still to be
\* summarised are asked for.
SummarySessions == {"s1", "s2"}
SummaryInputs ==
  {[e EXCEPT !.sessionId = n] :
     e \in {x \in ExchangeInputs : x.toolCalls = << >> /\ x.timestamp = 1},
     n \in SummarySessions \cup {Undefined}}

NextSummaries ==
  \/ Handle # "open" /\ initialize(None)
  \/ \E e \in SummaryInputs : insertExchange(e, << 0, 0 >>, 0)
  \/ \E id \in Ids : deleteExchange(id, 0)
  \/ \E n \in SummarySessions : getSummary(n)
  \/ \E n \in SummarySessions : hasSummary(n)
  \/ \E n \in SummarySessions, y \in Summaries : setSummary(n, "pA", y)
  \/ \E l \in AskedLimits : getSessionsNeedingSummaries(l)

SpecSummaries == Init /\ [][NextSummaries]_vars

\* SpecMigrate: an embedded file whose rows may lack their vector entry is
\* migrated to a server that is empty or already holds a row and a tool call
\* of it, for real or as a dry run, in batches of any size, inserts failing or not, and verified.
SourceStores ==
  {[EmptyTables EXCEPT
      !.exchanges = [x \in R |-> SqRow(MigExchange(x), 1)],
      !.vec_exchanges = [x \in V |-> Float32Array(IF x = "e1" THEN << 1, 0 >> ELSE << 0, 0 >>)],
      !.tool_calls = [x \in T |-> ToolRow(ToolCall(x, "e1", "Read"))]] :
     R \in SUBSET MigIds, V \in SUBSET MigIds, T \in {{}, {"t1"}}}
ServerStores ==
  {EmptyTables,
   PgInsertExchange(EmptyTables,
                    [MigExchange("e1") EXCEPT !.toolCalls = << ToolCall("t2", "e1", "Write") >>],
                    << 0, 0 >>, 1, 0).t}
BatchSizes == 1..MaxBatch
\* the batchSize option is any number: a negative one, zero
OtherBatchSizes == {0 - 1, 0}
MigFaults ==
  {{}, {<< "e2", "insert" >>}, {<< "e1", "insert" >>, << "e3", "read" >>}, {<< "e1", "parse" >>}}
\* e1 has a later timestamp than the others: only e2 and e3 can change places
MigTies == {f \in MigOrders : f["e1"] = 1}

InitMigrate ==
  /\ backend = "postgresql"
  /\ foreignKeys = TRUE
  /\ sqliteDb \in {src \in SourceStores :
                     /\ DOMAIN src.vec_exchanges \subseteq DOMAIN src.exchanges
                     /\ \A x \in DOMAIN src.tool_calls :
                          src.tool_calls[x].exchange_id \in DOMAIN src.exchanges}
  /\ summaryFiles = {}
  /\ columns = ExchangeColumns
  /\ orphans = 0
  /\ run = NoRun
  /\ clients = [max |-> Cardinality(Callers) + 1, out |-> 0]
  /\ db = Null
  /\ pool = Null
  /\ tables \in ServerStores
  /\ lifecycle = "new"
  /\ clock = 1
  /\ tx = [c \in Callers |-> Idle]
  /\ last = [op |-> "none", when |-> "new", err |-> None]

NextMigrate ==
  \/ \E b \in BatchSizes, dryRun \in BOOLEAN, faults \in MigFaults, tie \in MigTies :
       migrateToPostgres(b, dryRun, faults, tie, None)
  \/ \E b \in OtherBatchSizes, dryRun \in BOOLEAN, tie \in MigTies :
       migrateToPostgres(b, dryRun, {}, tie, None)
  \/ \E tie \in MigTies, f \in {"open", "count"} : migrateToPostgres(1, FALSE, {}, tie, f)
  \/ \E tie \in ProjectOrders, f \in {None, "open", "count"} : verifyMigration(tie, f)

SpecMigrate == InitMigrate /\ [][NextMigrate]_vars

\* SpecConfig: the configuration is resolved under every environment and
\* config file of the input sets.
InitConfig == Init /\ backend = "sqlite" /\ foreignKeys

NextConfig == \E env \in Envs, file \in ConfigFiles : getDatabaseConfig(env, file)

SpecConfig == InitConfig /\ [][NextConfig]_vars

\* SpecSchema: initialize() and close() on stores whose exchanges table is
\* missing, complete, or holds any subset of the migration columns, with a
\* failure at each step of initialize().
StoredColumns == {{}} \cup {BaseColumns \cup added : added \in SUBSET MigrationColumns}
InitFaults == {None, "open", "extension", "table", "session_id", "thinking_triggers"}

InitSchema ==
  /\ backend \in {"sqlite", "postgresql"}
  /\ foreignKeys = TRUE
  /\ sqliteDb = EmptyTables
  /\ summaryFiles = {}
  /\ columns \in StoredColumns
  /\ orphans = 0
  /\ run = NoRun
  /\ clients = [max |-> Cardinality(Callers) + 1, out |-> 0]
  /\ db = Null
  /\ pool = Null
  /\ tables = EmptyTables
  /\ lifecycle = "new"
  /\ clock = 1
  /\ tx = [c \in Callers |-> Idle]
  /\ last = [op |-> "none", when |-> "new", err |-> None]

NextSchema ==
  \/ \E f \in InitFaults : initialize(f)
  \/ close
  \/ closed
  \/ \E e \in LifeInputs : insertExchange(e, << 0, 0 >>, 0)
  \/ getAllExchanges

SpecSchema == InitSchema /\ [][NextSchema]_vars

\* SpecText: exchanges whose messages hold letters of both cases, ASCII and
\* not, are stored and searched by text, the query being any short string.
TextMetas ==
  { [userMessage |-> << "D", "o" >>, assistantMessage |-> << "k" >>],
    [userMessage |-> << "e'" >>, assistantMessage |-> << "p" >>] }

TextInputs ==
  { [id |-> i, timestamp |-> ts, project |-> "pA", userMessage |-> m.userMessage,
     assistantMessage |-> m.assistantMessage, archivePath |-> "a1", sessionId |-> "s1",
     isSidechain |-> FALSE, toolCalls |-> << >>] : i \in Ids, ts \in 1..MaxTs, m \in TextMetas }

Queries == {<< "d" >>, << "D" >>, << "e'" >>, << "E'" >>, << "_" >>, << "%" >>}

NextText ==
  \/ Handle # "open" /\ initialize(None)
  \/ \E e \in TextInputs : insertExchange(e, << 0, 0 >>, 0)
  \/ \E id \in Ids : deleteExchange(id, 0)
  \/ \E q \in Queries, l \in AskedLimits, tie \in TieOrders : searchByText(q, l, 0, 0, tie)

SpecText == Init /\ [][NextText]_vars

\* SpecReads: exchanges of two conversations and two projects are stored and
\* deleted, any statement of a call able to fail, and the store is asked for
\* its archives and its statistics.
\* A timestamp is any string the caller passes: 0 is the empty string.
ReadInputs ==
  {[e EXCEPT !.timestamp = ts] : e \in {x \in ExchangeInputs : x.toolCalls = << >>}, ts \in 0..MaxTs}
ArchivePaths == {"a1", "a2", "a3"}

NextReads ==
  \/ Handle # "open" /\ initialize(None)
  \/ \E e \in ReadInputs : \E f \in FaultPoints(InsertStatements(e, << 0, 0 >>)) :
       insertExchange(e, << 0, 0 >>, f)
  \/ \E id \in Ids : \E f \in FaultPoints(DeleteStatements(id)) : deleteExchange(id, f)
  \/ \E a \in ArchivePaths : hasExchangesForArchive(a)
  \/ \E tie \in ProjectOrders : getStats(tie)

SpecReads == Init /\ [][NextReads]_vars

\* SpecPool: the server backend with a pool of 1..MaxPool clients and two
\* callers whose insertExchange calls interleave; BEGIN, each statement, COMMIT
\* and ROLLBACK can fail.
InitPool ==
  /\ backend = "postgresql"
  /\ foreignKeys = TRUE
  /\ sqliteDb = EmptyTables
  /\ summaryFiles = {}
  /\ columns = {}
  /\ orphans = 0
  /\ run = NoRun
  /\ clients \in {[max |-> n, out |-> 0] : n \in 1..MaxPool}
  /\ db = Null
  /\ pool = Null
  /\ tables = EmptyTables
  /\ lifecycle = "new"
  /\ clock = 1
  /\ tx = [c \in Callers |-> Idle]
  /\ last = [op |-> "none", when |-> "new", err |-> None]

NextPool ==
  \/ Handle # "open" /\ initialize(None)
  \/ \E c \in Callers, e \in TxInputs, f \in BOOLEAN : TxBegin(c, e, << 0, 0 >>, f)
  \/ \E c \in Callers, f \in BOOLEAN : TxStatement(c, f)
  \/ \E c \in Callers, f \in BOOLEAN : TxCommit(c, f)
  \/ \E c \in Callers, f \in BOOLEAN : TxRollback(c, f)

SpecPool == InitPool /\ [][NextPool]_vars

\* SpecRace: two callers insert the same identifier on the server backend,
\* with different provenance, embeddings and tool calls, their transactions
\* interleaving statement by statement; no statement fails.
RaceInputs == {e \in WriteInputs : e.id = "e1"}

NextRace ==
  \/ Handle # "open" /\ initialize(None)
  \/ \E c \in Callers, e \in RaceInputs, v \in {<< 0, 0 >>, << 1, 0 >>} : TxBegin(c, e, v, FALSE)
  \/ \E c \in Callers : TxStatement(c, FALSE)
  \/ \E c \in Callers : TxCommit(c, FALSE)

SpecRace == InitTx /\ [][NextRace]_vars

\* SpecClean: the embedded backend under insertExchange and deleteExchange
\* calls that all return without error (a call that throws is not followed).
InitClean == Init /\ backend = "sqlite"

NextClean ==
  \/ Handle # "open" /\ initialize(None)
  \/ \E e \in WriteInputs, v \in Vectors : insertExchange(e, v, 0) /\ last'.err = None
  \/ \E id \in Ids : deleteExchange(id, 0) /\ last'.err = None

SpecClean == InitClean /\ [][NextClean]_vars

\* SpecBatch: processBatch over lists of up to MaxItems conversations with
\* every concurrency up to MaxConcurrency, the processor calls of a group
\* settling in any order, each with a summary or with null.
ItemLists == {SubSeq(Convs, 1, n) : n \in 0..MaxItems}

NextBatch ==
  \/ Handle # "open" /\ initialize(None)
  \/ \E items \in ItemLists, c \in 1..MaxConcurrency : processBatch(items, c)
  \/ \E k \in 1..MaxItems, summarized \in BOOLEAN : settle(k, summarized)
  \/ settled

SpecBatch == Init /\ [][NextBatch]_vars

\* SpecIndex: the conversation files are indexed, by indexUnprocessed and by
\* indexConversations, run after run, with and without summaries, the
\* summarizer and the inserts failing or not.
RecentSets == {{"c1", "c2", "c3", "c4", "c5"}, {"c1", "c3", "c4"}, {"c2", "c5"}}
\* the inserts of a run of which one may fail: the first ones
MaxFailing == 2

InitIndex == Init /\ foreignKeys

NextIndex ==
  \/ Handle # "open" /\ lifecycle # "closing" /\ initialize(None)
  \/ closed
  \/ \E recent \in RecentSets, c \in 1..2, noSummaries \in BOOLEAN :
       indexUnprocessed(recent, c, noSummaries)
  \/ \E p \in Projects, recent \in RecentSets, noSummaries \in BOOLEAN :
       indexConversations(p, recent, 1, noSummaries)
  \/ \E k \in 1..Len(Convs), summarized \in BOOLEAN : settle(k, summarized)
  \/ settled
  \/ \E failing \in 0..MaxFailing : indexEmbeddings(failing)

SpecIndex == InitIndex /\ [][NextIndex]_vars

\* ------------------------------------------------------------------ claims
\* What a completed insertExchange(e, v) must leave stored.
RowHolds(row, e) ==
  /\ row.id = e.id
  /\ row.project = e.project
  /\ row.timestamp = e.timestamp
  /\ row.user_message = e.userMessage
  /\ row.assistant_message = e.assistantMessage
  /\ row.archive_path = e.archivePath
  /\ row.session_id = (IF e.sessionId = Undefined THEN Null ELSE e.sessionId)
  /\ row.is_sidechain = (IF backend = "sqlite" THEN (IF e.isSidechain THEN 1 ELSE 0)
                                              ELSE e.isSidechain)

\* the embedding stored for an identifier: none or one
StoredEmbedding(t, id) ==
  IF backend = "sqlite"
  THEN (IF id \in DOMAIN t.vec_exchanges THEN {t.vec_exchanges[id]} ELSE {})
  ELSE (IF id \in DOMAIN t.exchanges THEN {t.exchanges[id].embedding} ELSE {})

\* the stored tool calls an exchange owns
OwnedTools(t, id) == {x \in DOMAIN t.tool_calls : t.tool_calls[x].exchange_id = id}

ToolHolds(t, tc) ==
  /\ tc.id \in DOMAIN t.tool_calls
  /\ t.tool_calls[tc.id].exchange_id = tc.exchangeId
  /\ t.tool_calls[tc.id].tool_name = tc.toolName

AllVisible(t, e, v) ==
  /\ e.id \in DOMAIN t.exchanges
  /\ RowHolds(t.exchanges[e.id], e)
  /\ StoredEmbedding(t, e.id) = {v}
  /\ \A i \in DOMAIN e.toolCalls : ToolHolds(t, e.toolCalls[i])

\* C1: on the server backend an insertExchange call is all-or-nothing.  The
\* stored tables change by a call only in the step that ends it successfully,
\* and then the exchange row with its embedding and every tool call of the
\* exchange are stored; a call that ends with an error leaves the tables as
\* they are; and at no time do the tables other operations read hold an
\* exchange row without all the tool calls it was inserted with.
C1_PgInsertAllOrNothing ==
  [][/\ \A c \in Callers :
          (tx[c].pc # "idle" /\ tx'[c] # tx[c] /\ tables' # tables)
            => /\ tx'[c].pc = "idle"
               /\ last'.op = "insertExchange" /\ last'.err = None /\ last'.e = tx[c].e
               /\ AllVisible(tables', tx[c].e, tx[c].v)
     /\ (last'.op = "insertExchange" /\ last'.err # None) => tables' = tables
     /\ \A id \in DOMAIN tables'.exchanges :
          \A i \in DOMAIN TxTools(id) : ToolHolds(tables', TxTools(id)[i])]_vars

\* a call on an exchange stored with other columns has failed and been rolled
\* back while another call is in flight with its exchange row written and
\* not yet committed
C1_Witness ==
  /\ last.op = "insertExchange" /\ last.err = StatementFailed
  /\ last.e.id = "e1" /\ last.v # ShortVector
  /\ \E r \in last.old : r.project # last.e.project
  /\ \E c \in Callers : tx[c].pc = "run" /\ tx[c].i = 3

\* C3: on both backends every operation called before initialize() or after
\* close() fails with the error 'Database not initialized' and changes neither
\* the stored tables nor the provider's handle.
C3_NotInitializedRefusal ==
  [][(lifecycle \in {"new", "closed"} /\ last'.op \in Operations)
       => /\ last'.err = NotInitialized
          /\ tables' = tables
          /\ db' = db /\ pool' = pool /\ lifecycle' = lifecycle]_vars

\* a write has been refused after close() while an exchange is stored
C3_Witness ==
  /\ last.op \in {"insertExchange", "deleteExchange", "rawExecute", "setSummary"}
  /\ last.when = "closed"
  /\ last.err = NotInitialized
  /\ DOMAIN tables.exchanges # {}

\* C2: on the embedded backend every insertExchange call, also a failing one,
\* leaves either the exchange row, its vector entry and all its tool-call rows
\* stored, or the tables as they were before the call.
C2_SqliteInsertAtomic ==
  [][(backend = "sqlite" /\ last'.op = "insertExchange")
       => (AllVisible(tables', last'.e, last'.v) \/ tables' = tables)]_vars

\* C4: after a deleteExchange(id) that completed, no exchange row, no vector
\* entry and no tool call of that identifier is stored; and in every state
\* every stored tool call references a stored exchange.
C4_DeleteCascades ==
  /\ (last.op = "deleteExchange" /\ last.err = None)
       => /\ last.id \notin DOMAIN tables.exchanges
          /\ last.id \notin DOMAIN tables.vec_exchanges
          /\ OwnedTools(tables, last.id) = {}
  /\ \A x \in DOMAIN tables.tool_calls :
       tables.tool_calls[x].exchange_id \in DOMAIN tables.exchanges

\* C5: when insertExchange(e) completes, the stored tool calls that e.id owns
\* are exactly the tool calls of e.
C5_ToolCallsReplaced ==
  (last.op = "insertExchange" /\ last.err = None)
    => OwnedTools(tables, last.e.id) = {last.e.toolCalls[i].id : i \in DOMAIN last.e.toolCalls}

\* C6: a completed insertExchange(e, v) leaves the row of e.id holding the
\* values of e and the embedding v, whatever row the identifier had before,
\* and the number of rows grows by one exactly when the identifier was new.
C6_UpsertById ==
  [][(last'.op = "insertExchange" /\ last'.err = None)
       => /\ last'.e.id \in DOMAIN tables'.exchanges
          /\ RowHolds(tables'.exchanges[last'.e.id], last'.e)
          /\ StoredEmbedding(tables', last'.e.id) = {last'.v}
          /\ Cardinality(DOMAIN tables'.exchanges)
               = Cardinality(DOMAIN tables.exchanges)
                 + (IF last'.e.id \in DOMAIN tables.exchanges THEN 0 ELSE 1)]_vars

\* a second insert of a stored identifier, with another project and embedding
C6_Witness ==
  /\ last.op = "insertExchange" /\ last.err = None
  /\ \E r \in last.old : r.project # last.e.project
  /\ \A r \in last.old : backend = "postgresql" => r.embedding # last.v

\* ---------------------------------------------------- vector and text search
\* the stored exchanges a vector search can return: those with an embedding
Searchable(t) ==
  {x \in DOMAIN t.exchanges : \E w \in StoredEmbedding(t, x) : w # NullVector}

ResultIds(r) == [i \in 1..Len(r.rows) |-> r.rows[i].id]

Inside(ts, after, before) ==
  /\ (after # 0 => ts >= after)
  /\ (before # 0 => ts <= before)

\* C7: after insertExchange(e, v) has succeeded, searchByVector(v) with any
\* limit >= 1 and no time window returns e as its first row, with distance
\* zero, whatever else is stored.
C7_InsertedComesFirst ==
  (last.op = "insertExchange" /\ last.err = None)
    => \A l \in Limits, tie \in TieOrders :
         LET r == SearchByVector(tables, last.v, l, 0, 0, tie)
         IN  /\ r.ok
             /\ Len(r.rows) >= 1
             /\ r.rows[1].id = last.e.id
             /\ r.rows[1].distance = 0

\* C7 (amended): after insertExchange(e, v) has succeeded, searchByVector(v)
\* with any limit >= 1 and no time window returns a first row with distance
\* zero; that row is e unless another stored exchange has the same embedding,
\* and then it is e or one of the exchanges with that embedding.
C7_InsertedAtDistanceZero ==
  (last.op = "insertExchange" /\ last.err = None)
    => \A l \in Limits, tie \in TieOrders :
         LET r == SearchByVector(tables, last.v, l, 0, 0, tie)
             twins == {x \in Searchable(tables) : StoredEmbedding(tables, x) = {last.v}}
         IN  /\ r.ok
             /\ Len(r.rows) >= 1
             /\ r.rows[1].distance = 0
             /\ r.rows[1].id \in twins
             /\ twins = {last.e.id} => r.rows[1].id = last.e.id

\* an insert has succeeded while another exchange with a different embedding
\* is stored, so that the search has a farther row to rank behind the new one
C7_Witness ==
  /\ last.op = "insertExchange" /\ last.err = None
  /\ \E x \in Searchable(tables) \ {last.e.id} :
       /\ StoredEmbedding(tables, x) # {last.v}
       /\ \E tie \in TieOrders :
            /\ tie[x] < tie[last.e.id]
            /\ ResultIds(SearchByVector(tables, last.v, 0, 0, 0, tie)) = << last.e.id, x >>

\* C8: searchByVector returns at most `limit` rows (10 when no limit is
\* given), in non-decreasing order of distance.
C8_AtMostLimitAscending ==
  \A q \in Vectors, l \in Limits, a \in Times, b \in Times, tie \in TieOrders :
    LET r == SearchByVector(tables, q, l, a, b, tie)
    IN  /\ Len(r.rows) <= (IF l = 0 THEN 10 ELSE l)
        /\ \A i, j \in 1..Len(r.rows) : i < j => r.rows[i].distance <= r.rows[j].distance

\* a search with limit 1 has answered with one row while the same query has
\* two rows at different distances to offer
C8_Witness ==
  /\ last.op = "searchByVector" /\ last.err = None
  /\ \E q \in Vectors, tie \in TieOrders :
       LET r1 == SearchByVector(tables, q, 1, 0, 0, tie)
           r2 == SearchByVector(tables, q, 2, 0, 0, tie)
       IN  /\ Len(r2.rows) = 2
           /\ r2.rows[1].distance < r2.rows[2].distance
           /\ last.ids = ResultIds(r1)
           /\ Len(last.ids) = 1

\* C9: with a time window, searchByVector returns min(limit, W) rows, W the
\* number of stored rows with an embedding whose timestamp is in the window,
\* and they are the nearest of those W rows.
C9_NearestWithinWindow ==
  \A q \in Vectors, l \in Limits, a \in Times, b \in Times, tie \in TieOrders :
    LET r == SearchByVector(tables, q, l, a, b, tie)
        W == {x \in Searchable(tables) : Inside(tables.exchanges[x].timestamp, a, b)}
        n == IF l = 0 THEN 10 ELSE l
        got == Range(ResultIds(r))
        d(x) == CHOOSE y \in {Distance(w, q) : w \in StoredEmbedding(tables, x)} : TRUE
    IN  /\ Len(r.rows) = (IF Cardinality(W) < n THEN Cardinality(W) ELSE n)
        /\ got \subseteq W
        /\ \A x \in got, y \in W \ got : d(x) <= d(y)

\* C10: for searchByVector and searchByText a row whose timestamp equals
\* `after` or equals `before` is eligible, and no row outside the window is
\* returned.
C10_WindowInclusive ==
  \A a \in Times, b \in Times, tie \in TieOrders :
    /\ \A q \in Vectors :
         LET all == SearchByVector(tables, q, 0, a, b, tie)
         IN  /\ \A l \in Limits :
                  \A x \in Range(ResultIds(SearchByVector(tables, q, l, a, b, tie))) :
                    Inside(tables.exchanges[x].timestamp, a, b)
             /\ \A x \in Searchable(tables) :
                  LET ts == tables.exchanges[x].timestamp
                  IN  ((ts = a \/ ts = b) /\ Inside(ts, a, b)) => x \in Range(ResultIds(all))
    /\ \A q \in TextQueries :
         LET all == SearchByText(tables, q, 0, a, b, tie)
             unwindowed == SearchByText(tables, q, 0, 0, 0, tie)
         IN  /\ \A l \in Limits :
                  \A x \in Range(ResultIds(SearchByText(tables, q, l, a, b, tie))) :
                    Inside(tables.exchanges[x].timestamp, a, b)
             /\ \A x \in Range(ResultIds(unwindowed)) :
                  LET ts == tables.exchanges[x].timestamp
                  IN  ((ts = a \/ ts = b) /\ Inside(ts, a, b)) => x \in Range(ResultIds(all))

\* a search whose `after` is the timestamp of one stored row and later than
\* that of another has returned the first row and not the second
C10_Witness ==
  /\ last.op \in {"searchByVector", "searchByText"} /\ last.err = None
  /\ \E x, y \in Searchable(tables) :
       /\ tables.exchanges[y].timestamp < tables.exchanges[x].timestamp
       /\ last.ids = << x >>
       /\ \E q \in Vectors, tie \in TieOrders :
            ResultIds(SearchByVector(tables, q, 0, tables.exchanges[x].timestamp, 0, tie))
              = << x >>

\* ------------------------------------------------------------- searchByText
\* letters compared without regard to case
Fold == [c \in Chars |-> IF c = "D" THEN "d" ELSE IF c = "E'" THEN "e'" ELSE c]

\* msg contains query as a case-insensitive substring
Contains(msg, query) ==
  \E i \in 0..Len(msg) :
    /\ i + Len(query) <= Len(msg)
    /\ \A j \in 1..Len(query) : Fold[msg[i + j]] = Fold[query[j]]

Matching(t, query, after, before) ==
  {x \in DOMAIN t.exchanges :
     /\ \/ Contains(t.exchanges[x].user_message, query)
        \/ Contains(t.exchanges[x].assistant_message, query)
     /\ Inside(t.exchanges[x].timestamp, after, before)}

DifferInCaseOnly(q1, q2) ==
  Len(q1) = Len(q2) /\ \A i \in 1..Len(q1) : Fold[q1[i]] = Fold[q2[i]]

\* C11: searchByText(query) returns, of the stored rows inside the window
\* whose user or assistant message contains query as a case-insensitive
\* substring, the `limit` rows with the latest timestamps, latest first, and no
\* other row; every returned row has distance 0; and two queries that differ
\* only in letter case return the same rows.
C11_TextSearchSubstring ==
  \A q \in Queries, l \in Limits, a \in Times, b \in Times, tie \in TieOrders :
    LET r == SearchByText(tables, q, l, a, b, tie)
        got == Range(ResultIds(r))
        M == Matching(tables, q, a, b)
        n == IF l = 0 THEN 10 ELSE l
    IN  /\ got \subseteq M
        /\ Len(r.rows) = (IF Cardinality(M) < n THEN Cardinality(M) ELSE n)
        /\ \A i, j \in 1..Len(r.rows) : i < j => r.rows[i].timestamp >= r.rows[j].timestamp
        /\ \A x \in got, y \in M \ got :
             tables.exchanges[x].timestamp >= tables.exchanges[y].timestamp
        /\ \A i \in 1..Len(r.rows) : r.rows[i].distance = 0
        /\ \A q2 \in Queries :
             DifferInCaseOnly(q, q2)
               => Range(ResultIds(SearchByText(tables, q2, 0, a, b, tie)))
                    = Range(ResultIds(SearchByText(tables, q, 0, a, b, tie)))

\* --------------------------------------------------- hasExchangesForArchive
StoredUnder(t, p) == {r.id : r \in {q \in GetAllExchanges(t) : q.archivePath = p}}

\* C12: hasExchangesForArchive(p) is true exactly when a stored exchange has
\* archive path p: false in the empty store, true after an insert for p, and
\* false again once every exchange with path p has been deleted or re-inserted
\* under another path.
C12_HasExchangesForArchive ==
  /\ \A p \in ArchivePaths : HasExchangesForArchive(tables, p) <=> StoredUnder(tables, p) # {}
  /\ DOMAIN tables.exchanges = {} => \A p \in ArchivePaths : ~HasExchangesForArchive(tables, p)
  /\ (last.op = "insertExchange" /\ last.err = None)
       => /\ HasExchangesForArchive(tables, last.e.archivePath)
          /\ \A r \in last.old :
               (r.archive_path # last.e.archivePath
                  /\ StoredUnder(tables, r.archive_path) \subseteq {last.e.id})
                 => ~HasExchangesForArchive(tables, r.archive_path)
  /\ (last.op = "deleteExchange" /\ last.err = None)
       => \A p \in ArchivePaths :
            HasExchangesForArchive(tables, p) <=> StoredUnder(tables, p) \ {last.id} # {}

\* the store has answered that nothing is stored under a1 after the only
\* exchange of a1 was re-inserted under another path
C12_Witness ==
  /\ last.op = "hasExchangesForArchive" /\ last.err = None /\ last.out = FALSE
  /\ StoredUnder(tables, "a2") # {}
  /\ ~HasExchangesForArchive(tables, "a1") /\ ~HasExchangesForArchive(tables, "a3")

\* ---- getStats -----------------------------------------------------------

ArchivesOfProject(t, p) ==
  {t.exchanges[x].archive_path : x \in {y \in DOMAIN t.exchanges : t.exchanges[y].project = p}}

StatsAsClaimed(t, s) ==
  LET rows == DOMAIN t.exchanges
      paths == {t.exchanges[x].archive_path : x \in rows}
      stamps == {t.exchanges[x].timestamp : x \in rows}
  IN  /\ s.totalExchanges = Cardinality(rows)
      /\ s.totalConversations = Cardinality(paths)
      /\ s.totalConversations = Cardinality(s.archivePaths)
      /\ s.projectCount = Cardinality({t.exchanges[x].project : x \in rows})
      /\ (s.dateRange = {}) <=> (rows = {})
      /\ rows # {} => s.dateRange \subseteq {[earliest |-> Min(stamps), latest |-> Max(stamps)]}
      /\ Len(s.topProjects) <= 10
      /\ \A i \in 1..Len(s.topProjects) :
           /\ s.topProjects[i].count = Cardinality(ArchivesOfProject(t, s.topProjects[i].project))
           /\ \A j \in 1..Len(s.topProjects) :
                i < j => /\ s.topProjects[i].count >= s.topProjects[j].count
                         /\ s.topProjects[i].project # s.topProjects[j].project

\* C13: getStats reports the number of rows, the number of distinct archive
\* paths (also the length of archivePaths), the number of distinct projects,
\* the least and greatest timestamp as dateRange, absent exactly when the store
\* is empty, and at most 10 projects with their numbers of distinct archive
\* paths in non-increasing order.
C13_StatsDescribeStore ==
  \A tie \in ProjectOrders : StatsAsClaimed(tables, GetStats(tables, tie))

\* ---- sync records -------------------------------------------------------

SyncRecords(t, p) == {x \in DOMAIN t.synced_files : x = p}

\* C14: needsSync(path, mtime, size) is true exactly when no sync record exists
\* for the path, or the stored modification time is strictly older than mtime,
\* or the stored size differs; a path has at most one sync record, and a
\* successful setSyncedFile leaves the record it wrote as the path's only one.
C14_NeedsSync ==
  /\ \A p \in SyncPaths, m \in SyncMtimes, z \in Sizes :
       NeedsSync(tables, p, m, z) <=>
         \/ SyncRecords(tables, p) = {}
         \/ \E x \in SyncRecords(tables, p) :
              \/ 2 * tables.synced_files[x].mtime_ms < m
              \/ tables.synced_files[x].size_bytes # z
  /\ \A p \in SyncPaths : Cardinality(SyncRecords(tables, p)) <= 1
  /\ (last.op = "setSyncedFile" /\ last.err = None)
       => /\ GetSyncedFile(tables, last.sourcePath)
               = {[mtimeMs |-> last.mtimeHalves \div 2, sizeBytes |-> last.sizeBytes]}
          /\ ~NeedsSync(tables, last.sourcePath, 2 * (last.mtimeHalves \div 2), last.sizeBytes)
  /\ (last.op = "needsSync" /\ last.err = None) => last.out \in BOOLEAN

\* a recorded file is asked about with a later, fractional modification time
C14_Witness ==
  /\ last.op = "needsSync" /\ last.err = None /\ last.out
  /\ \E p \in SyncPaths :
       /\ SyncRecords(tables, p) # {}
       /\ NeedsSync(tables, p, HalfMs(1) + 1, tables.synced_files[p].size_bytes)
       /\ ~NeedsSync(tables, p, HalfMs(1), tables.synced_files[p].size_bytes)

\* ---- summaries ----------------------------------------------------------

SummaryRecords(t, n) == {x \in DOMAIN t.summaries : x = n}

SetSummaryStep(n) == last'.op = "setSummary" /\ last'.err = None /\ last'.sessionId = n

\* C15: a session id never has two summary records; getSummary(s) is the text
\* of the latest setSummary for s (each successful setSummary makes its text the
\* answer, every other step keeps the answer), null while there was none, and
\* hasSummary(s) holds exactly when getSummary(s) is not null.
C15_SummaryPerSession ==
  /\ [](\A n \in SummarySessions :
          /\ Cardinality(SummaryRecords(tables, n)) <= 1
          /\ HasSummary(tables, n) <=> GetSummary(tables, n) # {}
          /\ lifecycle = "new" => GetSummary(tables, n) = {})
  /\ [][\A n \in SummarySessions :
          GetSummary(tables', n) = IF SetSummaryStep(n) THEN {last'.summary}
                                   ELSE GetSummary(tables, n)]_vars

\* a session summarised twice answers with the second text
C15_Witness ==
  /\ last.op = "setSummary" /\ last.err = None /\ last.summary = "sum2"
  /\ GetSummary(tables, last.sessionId) = {"sum2"}
  /\ \E n \in SummarySessions : n # last.sessionId /\ GetSummary(tables, n) = {"sum1"}

\* ---- sessions needing summaries -----------------------------------------

SessionsStored(t) == {t.exchanges[x].session_id : x \in DOMAIN t.exchanges}

\* C16: getSessionsNeedingSummaries(limit) returns at most `limit` entries;
\* every returned session id is non-null, belongs to a stored exchange and has
\* no summary record, and no session id is returned twice.
C16_SessionsNeedingSummaries ==
  backend = "postgresql" =>
  \A l \in AskedLimits : \A rows \in GetSessionsNeedingSummaries(tables, l) :
    /\ Cardinality(rows) <= Limit(l)
    /\ \A r \in rows : /\ r.sessionId # Null
                       /\ r.sessionId \in SessionsStored(tables)
                       /\ ~HasSummary(tables, r.sessionId)
    /\ \A r, q \in rows : r.sessionId = q.sessionId => r = q

\* ---- migration ----------------------------------------------------------

WithVector(src) == {x \in DOMAIN src.exchanges : x \in DOMAIN src.vec_exchanges}

Migrated == last.op = "migrateToPostgres" /\ last.err = None

\* the server row that holds what the embedded row x and its vector entry hold
SameExchange(src, t, x) ==
  /\ x \in DOMAIN t.exchanges
  /\ \A c \in {"id", "project", "timestamp", "user_message", "assistant_message",
               "archive_path", "session_id"} : t.exchanges[x][c] = src.exchanges[x][c]
  /\ t.exchanges[x].is_sidechain <=> src.exchanges[x].is_sidechain = 1
  /\ t.exchanges[x].embedding = src.vec_exchanges[x]

VisitedEachOnce(src, visited) ==
  /\ Len(visited) = Cardinality(DOMAIN src.exchanges)
  /\ Range(visited) = DOMAIN src.exchanges

DryRun == Migrated /\ last.dryRun

\* the steps of `faults` a dry run takes too
BeforeInsert(faults) == {f \in faults : f[2] # "insert"}

\* the real runs the dry run stands for: same file, same server, any batch
\* size and row order, the steps in `faults` failing
RealRuns(faults) ==
  {Migrate(sqliteDb, last.before, b, FALSE, faults, tie, clock) : b \in BatchSizes, tie \in MigTies}

\* C18: a dry-run migration leaves the server's exchanges and tool calls as
\* they were, visits every source row, and reports the migrated and skipped
\* counts of a real run none of whose inserts fails; of a real run with failing
\* inserts it reports the skipped count, and as migrated plus errors the sum of
\* that run's migrated and error counts.
C18_DryRunWritesNothing ==
  DryRun =>
    /\ tables = last.before
    /\ VisitedEachOnce(sqliteDb, last.visited)
    /\ \A real \in RealRuns(BeforeInsert(last.faults)) :
         last.processed = real.processed /\ last.skipped = real.skipped
    /\ \A faults \in {f \in MigFaults : BeforeInsert(f) = BeforeInsert(last.faults)} :
         \A real \in RealRuns(faults) :
           /\ last.processed + last.errors = real.processed + real.errors
           /\ last.skipped = real.skipped

\* C18 as stated: the dry run reports the migrated and skipped counts of a real
\* run, whether or not that run's inserts fail.
C18_DryRunCountsOfAnyRealRun ==
  DryRun =>
    /\ tables = last.before
    /\ VisitedEachOnce(sqliteDb, last.visited)
    /\ \A faults \in {f \in MigFaults : BeforeInsert(f) = BeforeInsert(last.faults)} :
         \A real \in RealRuns(faults) :
           last.processed = real.processed /\ last.skipped = real.skipped

\* a dry run over a file with a row to migrate and a row to skip, against a
\* server that already holds a row
C18_Witness ==
  /\ DryRun
  /\ DOMAIN last.before.exchanges # {}
  /\ last.processed >= 1 /\ last.skipped >= 1
  /\ tables = last.before

Verified == last.op = "verifyMigration" /\ last.err = None

SameRuns ==
  {Migrate(sqliteDb, last.before, b, last.dryRun, last.faults, tie, clock) :
     b \in BatchSizes, tie \in MigTies}

\* C20: whatever the batch size, a migration of the same embedded file ends
\* with the same migrated, skipped and error counts and the same server
\* contents, and visits each source row exactly once.
C20_BatchSizeIrrelevant ==
  Migrated =>
    /\ VisitedEachOnce(sqliteDb, last.visited)
    /\ last.processed + last.skipped + last.errors = Cardinality(DOMAIN sqliteDb.exchanges)
    /\ \A r \in SameRuns :
         /\ r.processed = last.processed
         /\ r.skipped = last.skipped
         /\ r.errors = last.errors
         /\ r.t = tables
         /\ VisitedEachOnce(sqliteDb, r.visited)

\* three rows migrated one per batch: one migrated, one skipped, one failed
C20_Witness ==
  /\ Migrated /\ ~last.dryRun /\ last.batchSize = 1
  /\ Len(last.visited) = 3
  /\ last.processed = 1 /\ last.skipped = 1 /\ last.errors = 1

\* the rows of the embedded file a step of which fails in the run
FailedRows(src, faults) ==
  {x \in DOMAIN src.exchanges :
     \/ Throws(faults, x, "read")
     \/ /\ x \in DOMAIN src.vec_exchanges
        /\ \/ Throws(faults, x, "parse") /\ ToolsOf(src, x) # {}
           \/ Throws(faults, x, "insert") /\ ~last.dryRun}

\* C21: a row whose reading, parsing or insert fails counts as an error and
\* does not end the run: every row is reached, the errors are the failing
\* rows, each Progress line has migrated + skipped + errors equal to the rows
\* done so far, and the last one has them equal to the number of source rows.
C21_RowFailuresCounted ==
  Migrated =>
    /\ last.errors = Cardinality(FailedRows(sqliteDb, last.faults))
    /\ VisitedEachOnce(sqliteDb, last.visited)
    /\ \A k \in 1..Len(last.log) :
         /\ last.log[k].processed + last.log[k].skipped + last.log[k].errors = last.log[k].done
         /\ last.log[k].done = IF k * last.batchSize < Len(last.visited)
                               THEN k * last.batchSize ELSE Len(last.visited)
    /\ last.processed + last.skipped + last.errors = Cardinality(DOMAIN sqliteDb.exchanges)
    /\ DOMAIN sqliteDb.exchanges # {} =>
         /\ Len(last.log) >= 1
         /\ last.log[Len(last.log)].done = Cardinality(DOMAIN sqliteDb.exchanges)

\* the first of three rows fails in a run of one-row batches, the later two
\* are migrated
C21_Witness ==
  /\ Migrated /\ ~last.dryRun /\ last.batchSize = 1
  /\ Len(last.visited) = 3 /\ Len(last.log) = 3
  /\ last.log[1].errors = 1
  /\ last.processed = 2 /\ last.errors = 1

\* the rows the run counted as migrated
CountedMigrated == WithVector(sqliteDb) \ FailedRows(sqliteDb, last.faults)

\* C22: every exchange a real run counts as migrated is on the server with the
\* columns and the embedding of its source row, and the server's tool calls of
\* that exchange are exactly the tool calls that refer to it in the embedded
\* file.
C22_MigratedRowsFaithful ==
  (Migrated /\ ~last.dryRun) =>
    /\ last.processed = Cardinality(CountedMigrated)
    /\ \A x \in CountedMigrated :
         /\ SameExchange(sqliteDb, tables, x)
         /\ ToolsOf(tables, x) = ToolsOf(sqliteDb, x)
         /\ \A tc \in ToolsOf(sqliteDb, x) : tables.tool_calls[tc] = sqliteDb.tool_calls[tc]

\* ---- configuration ------------------------------------------------------

Resolved == last.op = "getDatabaseConfig"

\* C23: a recognised environment provider decides the backend whatever the
\* file says; otherwise a file that selects the server backend decides;
\* otherwise the embedded backend is chosen; the server backend without its
\* URL (of the environment, respectively of the file) is a configuration error;
\* pool size defaults to 10 and SSL to false.
C23_ConfigPrecedence ==
  Resolved =>
    LET env == last.env
        file == last.file
        out == last.out
        noUrl(u) == u = Undefined \/ u = ""
    IN  /\ env.provider = "sqlite" => out = SqliteConfig
        /\ env.provider = "postgresql" =>
             IF noUrl(env.url) THEN out.err = EnvUrlRequired
             ELSE /\ out.err = None /\ out.provider = "postgresql" /\ out.url = env.url
                  /\ env.poolSize = Undefined => out.poolSize = 10
                  /\ env.poolSize = "5" => out.poolSize = 5
                  /\ env.ssl = Undefined => out.ssl = FALSE
                  /\ out.ssl <=> env.ssl = "true"
        /\ env.provider \notin {"sqlite", "postgresql"} =>
             IF file.exists /\ file.provider = "postgresql"
             THEN IF ~file.postgresql \/ noUrl(file.url) THEN out.err = FileUrlRequired
                  ELSE /\ out.err = None /\ out.provider = "postgresql" /\ out.url = file.url
                       /\ file.poolSize = {} => out.poolSize = 10
                       /\ file.poolSize # {} => {out.poolSize} = file.poolSize
                       /\ file.ssl = {} => out.ssl = FALSE
                       /\ file.ssl # {} => {out.ssl} = file.ssl
             ELSE out = SqliteConfig

\* the environment selects the embedded backend over a file that selects the
\* server backend
C23_Witness ==
  /\ Resolved
  /\ last.env.provider = "sqlite"
  /\ last.file.exists /\ last.file.provider = "postgresql" /\ last.file.url = "postgres://file"
  /\ last.out.provider = "sqlite"

\* ---------------------------------------------------------------------- C24
\* the step is an initialize() call that found the handle or the server
InitializeStep == last'.op = "initialize" /\ vars' # vars /\ last'.fault # "open"

\* an initialize() call during which no statement was made to fail
Unhindered == last'.fault = None

\* C24 (on the embedded backend): initialize() on an exchanges table holding
\* any subset of the migration columns succeeds and leaves the table with
\* every column it had plus every migration column; on a complete table it
\* adds nothing; when the ALTER TABLE of a missing column fails, it fails.
C24_SqliteMigrationAdditive ==
  [][InitializeStep /\ backend = "sqlite" =>
       /\ columns \subseteq columns'
       /\ Unhindered => /\ last'.err = None
                        /\ columns' = columns \cup ExchangeColumns
       /\ columns = ExchangeColumns => columns' = columns
       /\ (columns # {} /\ last'.fault \in MigrationColumns \ columns) => last'.err # None]_vars

C24_Witness ==
  /\ backend = "sqlite"
  /\ last.op = "initialize"
  /\ last.when = "initialized"
  /\ last.err = None
  /\ summaryFiles = {}
  /\ columns = ExchangeColumns

\* C24: on both backends, initialize() on an exchanges table holding any
\* subset of the migration columns succeeds and leaves the table with every
\* column it had plus every migration column; a further initialize() adds no
\* column; a failure to add a column makes initialize() fail.
C24_MigrationAdditive ==
  [][InitializeStep =>
       /\ columns \subseteq columns'
       /\ Unhindered => /\ last'.err = None
                        /\ columns' = columns \cup ExchangeColumns
       /\ columns = ExchangeColumns => columns' = columns
       /\ (columns # {} /\ last'.fault \in MigrationColumns \ columns) => last'.err # None]_vars

\* ---------------------------------------------------------------------- C25
\* the store handles or connection pools that are open: the one the provider
\* refers to and the ones it no longer refers to
OpenHandles == orphans + (IF Handle = "open" THEN 1 ELSE 0)

\* C25: initialize() on an already-initialized provider changes no stored
\* row, succeeds, leaves the provider usable and leaves exactly one handle or
\* pool open, the one the provider holds and a single close() releases.
C25_ReinitializeSafe ==
  [][(/\ last'.op = "initialize"
      /\ vars' # vars
      /\ last'.fault = None
      /\ lifecycle = "initialized"
      /\ OpenHandles = 1)
     => /\ tables' = tables
        /\ last'.err = None
        /\ Refusal' = None
        /\ Handle' = "open"
        /\ OpenHandles' = 1]_vars

\* ---------------------------------------------------------------------- C28
\* C28: when initialize() of a provider that holds nothing fails, at whatever
\* step, the provider holds no open handle or pool afterwards, nothing the call
\* opened stays open, and later operations are refused as not initialized.
C28_FailedInitializeReleases ==
  [][(/\ last'.op = "initialize"
      /\ vars' # vars
      /\ last'.err # None
      /\ NotOpen(Handle)
      /\ OpenHandles = 0)
     => /\ NotOpen(Handle')
        /\ OpenHandles' = 0
        /\ Refusal' = NotInitialized]_vars

\* ---------------------------------------------------------------------- C26
StartedItems == {run.started[a] : a \in DOMAIN run.started}

\* C26: a processBatch call with concurrency c >= 1 never has more than c
\* processor calls in flight; it starts the calls of a group only when no call
\* of the group before is in flight; no item is given to the processor twice;
\* when it returns every item was processed once and the results are the
\* processor's results in item order.
C26_BoundedConcurrency ==
  /\ [](run.pc # "idle" =>
          /\ Cardinality(run.inflight) <= run.c
          /\ run.inflight \subseteq StartedItems
          /\ \A a, b \in DOMAIN run.started : run.started[a] = run.started[b] => a = b
          /\ run.pc = "returned" =>
               /\ run.inflight = {}
               /\ run.started = [k \in DOMAIN run.items |-> k]
               /\ Len(run.results) = Len(run.items)
               /\ \A k \in DOMAIN run.items :
                    run.results[k] \in {Null, SummaryText(run.items[k])})
  /\ [][(run.pc = "awaiting" /\ run'.pc # "idle" /\ run'.started # run.started)
        => run.inflight = {}]_vars
  /\ [][last'.op = "processor" /\ vars' # vars =>
          /\ run'.batchResults[last'.item] \in {Null, SummaryText(run.items[last'.item])}
          /\ \A k \in DOMAIN run.batchResults : run'.batchResults[k] = run.batchResults[k]
          /\ run'.results = run.results]_vars

C26_Witness ==
  /\ run.pc = "returned"
  /\ Len(run.items) = 3
  /\ run.c = 2
  /\ run.results = << "sum of c1", Null, "sum of c3" >>

\* ---------------------------------------------------------------------- C27
\* the insertExchange calls that hold a client
Holding == {c \in Callers : tx[c].pc # "idle"}

\* C27: every server insertExchange call in flight holds one client of the
\* pool; the call gives it back, once, when it ends, whether it committed,
\* rolled back after a failed statement or failed to roll back; the clients
\* checked out never exceed the pool size and are none when no call is in flight.
C27_ClientsReleased ==
  /\ [](/\ clients.out = Cardinality(Holding)
        /\ clients.out <= clients.max
        /\ Holding = {} => clients.out = 0)
  /\ [][clients'.out = clients.out + Cardinality(Holding' \ Holding)
                                     - Cardinality(Holding \ Holding')]_vars

\* a call whose ROLLBACK failed has ended while the other call waits for the
\* only client of the pool
C27_Witness ==
  /\ clients.max = 1
  /\ clients.out = 0
  /\ last.op = "insertExchange"
  /\ "rollback" \in DOMAIN last
  /\ last.rollback = StatementFailed

\* ---------------------------------------------------------------------- C29
\* insertExchange(e, embedding) on store t, no statement failing
InsertInto(t, e, v) ==
  IF backend = "sqlite" THEN SqInsertExchange(t, e, v, clock, 0, foreignKeys)
  ELSE PgInsertExchange(t, e, v, clock, 0)

\* insertExchange(a) and then insertExchange(b) on the stored tables
InsertBoth(a, b) ==
  LET first == InsertInto(tables, a, << 0, 0 >>)
      second == InsertInto(first.t, b, << 1, 0 >>)
  IN  [ok |-> first.ok /\ second.ok, t |-> second.t]

InsertOther(a, b) ==
  LET first == InsertInto(tables, b, << 1, 0 >>)
      second == InsertInto(first.t, a, << 0, 0 >>)
  IN  [ok |-> first.ok /\ second.ok, t |-> second.t]

ToolIdsOf(e) == {e.toolCalls[k].id : k \in DOMAIN e.toolCalls}

\* inserting exchanges of different ids that share no tool-call id gives the
\* same store in either order
C29_DisjointInsertsCommute ==
  Refusal = None =>
    \A a, b \in WriteInputs :
      (a.id # b.id /\ ToolIdsOf(a) \cap ToolIdsOf(b) = {} /\ InsertBoth(a, b).ok /\ InsertOther(a, b).ok)
        => InsertBoth(a, b).t = InsertOther(a, b).t

\* C29: in every store state, inserting two exchanges of different ids, which
\* may carry a tool call of the same tool-call id, leaves the same exchanges,
\* vector entries and tool calls in either order.
C29_InsertsCommute ==
  Refusal = None =>
    \A a, b \in WriteInputs :
      (a.id # b.id /\ InsertBoth(a, b).ok /\ InsertOther(a, b).ok)
        => InsertBoth(a, b).t = InsertOther(a, b).t

\* ---------------------------------------------------------------------- C30
\* caller c commits a call for the identifier of the call that completed last,
\* and was in flight when that call committed: the two calls ran concurrently
\* and both completed
SecondCommits(c) ==
  /\ tx[c].pc = "run"
  /\ tx'[c].pc = "idle"
  /\ last'.err = None
  /\ last.op = "insertExchange"
  /\ last.err = None
  /\ c \in last.inflight
  /\ last.e.id = tx[c].e.id

\* the stored row of e.id and its stored tool calls are those written by the
\* call insertExchange(e, v)
WrittenBy(t, e, v) ==
  /\ e.id \in DOMAIN t.exchanges
  /\ RowHolds(t.exchanges[e.id], e)
  /\ StoredEmbedding(t, e.id) = {v}
  /\ OwnedTools(t, e.id) = {e.toolCalls[i].id : i \in DOMAIN e.toolCalls}
  /\ \A i \in DOMAIN e.toolCalls : t.tool_calls[e.toolCalls[i].id] = ToolRow(e.toolCalls[i])

\* the stored row of e.id is the one written by the call insertExchange(e, v)
RowWrittenBy(t, e, v) ==
  /\ e.id \in DOMAIN t.exchanges
  /\ RowHolds(t.exchanges[e.id], e)
  /\ StoredEmbedding(t, e.id) = {v}
  /\ \A i \in DOMAIN e.toolCalls : t.tool_calls[e.toolCalls[i].id] = ToolRow(e.toolCalls[i])

\* when two concurrent insertExchange calls for one identifier have both
\* completed, the stored row, in all its fields and its embedding, is the row
\* of the call that committed last, and the tool calls that call carried are
\* stored as it gave them
C30_LastCommitterRow ==
  [][\A c \in Callers : SecondCommits(c) => RowWrittenBy(tables', tx[c].e, tx[c].v)]_vars

\* C30: when two concurrent insertExchange calls for one identifier have both
\* completed, the stored row, in all its fields and its embedding, is the row
\* written by one of the two calls, and the stored tool calls of the identifier
\* are those of that same call.
C30_LastWriterWins ==
  [][\A c \in Callers :
       SecondCommits(c) => \/ WrittenBy(tables', tx[c].e, tx[c].v)
                           \/ WrittenBy(tables', last.e, last.v)]_vars

\* ---------------------------------------------------------------------- C38
\* C38: on the embedded backend, while every insertExchange and deleteExchange
\* call returned without error, the ids of the vector index are the ids of the
\* exchanges table (the index holds one entry per id).
C38_VectorIndexMatches ==
  backend = "sqlite" => DOMAIN tables.vec_exchanges = DOMAIN tables.exchanges

\* an identifier that was stored is inserted again, next to another stored one
C38_Witness ==
  /\ backend = "sqlite"
  /\ last.op = "insertExchange"
  /\ last.err = None
  /\ last.old # {}
  /\ Cardinality(DOMAIN tables.exchanges) = 2

\* ---------------------------------------------------------------------- C35
\* C35: after setSyncedFile(p, m, s), for a whole or a fractional number of
\* milliseconds m, needsSync(p, m, s) is false.
C35_SyncedNeedsNoSync ==
  (last.op = "setSyncedFile" /\ last.err = None)
    => ~NeedsSync(tables, last.sourcePath, last.mtimeHalves, last.sizeBytes)

\* after setSyncedFile(p, m, s) with m a whole number of milliseconds,
\* needsSync(p, m, s) is false
C35_WholeMsNeedsNoSync ==
  (last.op = "setSyncedFile" /\ last.err = None /\ last.mtimeHalves = HalfMs(MathFloor(last.mtimeHalves)))
    => ~NeedsSync(tables, last.sourcePath, last.mtimeHalves, last.sizeBytes)

\* ---------------------------------------------------------------------- C36
\* the last call was a migration, not a dry run, into an empty server store,
\* and it reported no error
CleanMigration ==
  /\ last.op = "migrateToPostgres"
  /\ last.err = None
  /\ ~last.dryRun
  /\ last.errors = 0
  /\ last.before = EmptyTables

\* C36: after a migration into an empty server store that reported zero
\* errors, verifyMigration on the two stores returns true, whatever the source
\* store holds.
C36_VerifyAfterMigration ==
  CleanMigration => \A tie \in ProjectOrders : VerifyMigration(sqliteDb, tables, tie).match

\* after such a migration that skipped no row, verifyMigration returns true
C36_VerifyAfterCompleteMigration ==
  (CleanMigration /\ last.skipped = 0)
    => \A tie \in ProjectOrders : VerifyMigration(sqliteDb, tables, tie).match

\* ---------------------------------------------------------------------- C34
\* C34: migrateToPostgres returns for every batchSize option, zero and
\* negative ones included, and every source store.
C34_MigrationTerminates ==
  last.op = "migrateToPostgres" => last.err # NoReturn

\* migrateToPostgres returns for every batchSize of at least 1, and for every
\* batchSize when the source store holds no exchange
C34_PositiveBatchTerminates ==
  (last.op = "migrateToPostgres" /\ last.err = NoReturn)
    => last.batchSize < 1 /\ DOMAIN sqliteDb.exchanges # {}

\* C37: migrateToPostgres and verifyMigration close every handle they opened
\* (the embedded file, the provider they initialized) on every exit path,
\* a failing initialize() and a failing statement before the row loop
\* included.
C37_MigrationClosesHandles ==
  (last.op \in {"migrateToPostgres", "verifyMigration"} /\ last.err # NoReturn)
    => last.opened \subseteq last.closed

\* every exit from the try block closes what the run opened: a run whose
\* provider initialized, failing at its first statement or not
C37_ClosedAfterTry ==
  (/\ last.op \in {"migrateToPostgres", "verifyMigration"}
   /\ last.err # NoReturn
   /\ (last.err = StatementFailed => last.fault = "count"))
    => last.closed = last.opened

\* ---------------------------------------------------------------------- C31
Indexed(t) == {conv \in Range(Convs) : HasExchangesForArchive(t, ArchivePath(conv))}
IndexUnprocessedStep == last'.op = "indexUnprocessed" /\ vars' # vars
CompletedStep(job) ==
  /\ vars' # vars
  /\ run'.pc = "done" /\ run'.job = job
  /\ last'.op \in {"indexUnprocessed", "indexConversations", "indexEmbeddings"}

\* C31: indexUnprocessed parses, summarizes and inserts only files for which
\* hasExchangesForArchive is false when the run checks them; once a run has
\* completed every conversation it processed has a stored exchange under its
\* archive path, and a second run over the same files processes and inserts
\* nothing.
C31_IndexedFilesSkipped ==
  [][/\ IndexUnprocessedStep =>
          /\ run'.parsed \cap Indexed(tables) = {}
          /\ Range(run'.convs) \subseteq run'.parsed
          /\ Range(run'.items) \subseteq Range(run'.convs)
          /\ \A conv \in run'.files \ Indexed(tables) :
               Len(ParseConversation(conv)) # 0 => conv \in Range(run'.convs)
     /\ (run.pc \in {"awaiting", "returned"} /\ run.job = "indexUnprocessed")
          => /\ run'.convs = run.convs
             /\ Range(run'.items) \subseteq Range(run.convs)
             /\ \A id \in DOMAIN tables'.exchanges \ DOMAIN tables.exchanges :
                  \E conv \in Range(run.convs) : tables'.exchanges[id].archive_path = ArchivePath(conv)
     /\ CompletedStep("indexUnprocessed") => Range(run'.convs) \subseteq Indexed(tables')
     /\ (/\ IndexUnprocessedStep
         /\ run.pc = "done" /\ run.job = "indexUnprocessed"
         /\ run'.files = run.files)
          => /\ Len(run'.convs) = 0
             /\ run'.pc = "done"
             /\ tables' = tables]_vars

\* a run over all the files has found every conversation that holds an
\* exchange indexed: it parsed the empty file alone and inserted nothing
C31_Witness ==
  /\ last.op = "indexUnprocessed"
  /\ run.pc = "done" /\ run.job = "indexUnprocessed"
  /\ run.files = Range(Convs)
  /\ run.parsed = {"c5"}
  /\ Indexed(tables) = {"c1", "c2", "c3", "c4"}

\* ---------------------------------------------------------------------- C32
PipelineRun == run.pc # "idle" /\ run.job \in {"indexUnprocessed", "indexConversations"}
\* the conversations whose summarizer call begins with the step
CallsBegun ==
  IF run'.pc # "awaiting" THEN {}
  ELSE IF run.pc = "awaiting" /\ run'.started = run.started THEN {}
  ELSE {run'.items[k] : k \in run'.inflight}

\* C32: the summarizer is never called for a conversation that has a summary
\* when the call is made (hasSummary(sessionId) on the server backend when the
\* file name is a session id, the -summary.txt file otherwise), and never when
\* summaries are disabled.
C32_SummarizedOnce ==
  [][(run'.pc # "idle" /\ run'.job \in {"indexUnprocessed", "indexConversations"})
       => /\ \A conv \in CallsBegun : ~SummaryExists(conv, tables, summaryFiles)
          /\ run'.noSummaries => Len(run'.started) = 0]_vars

\* the filter of a run lets through exactly the conversations that have no
\* summary when the run starts, only those are summarized, and none when
\* summaries are disabled
C32_FilteredAtStart ==
  [][(run'.pc # "idle" /\ run'.job \in {"indexUnprocessed", "indexConversations"})
       => /\ last'.op \in {"indexUnprocessed", "indexConversations"}
               => \A conv \in Range(run'.items) : ~SummaryExists(conv, tables, summaryFiles)
          /\ CallsBegun \subseteq Range(run'.items)
          /\ run'.noSummaries => Len(run'.started) = 0]_vars

\* ---------------------------------------------------------------------- C33
\* C33: a summary the pipeline obtains from the summarizer is stored where
\* the next run looks for it, on the server backend also when the file name
\* is not a session id.
C33_SummaryPersisted ==
  [][(/\ PipelineRun
      /\ last'.op = "processor" /\ vars' # vars
      /\ run'.batchResults[last'.item] # Null)
       => SummaryExists(run.items[last'.item], tables', summaryFiles')]_vars

\* the summary is stored where the next run looks whenever the processor
\* writes it: to the file on the embedded backend, to the summaries table when
\* the file name is a session id
C33_PersistedWhenWritten ==
  [][(/\ PipelineRun
      /\ last'.op = "processor" /\ vars' # vars
      /\ run'.batchResults[last'.item] # Null
      /\ (backend = "postgresql" => SessionOf(run.items[last'.item]) # Null))
       => SummaryExists(run.items[last'.item], tables', summaryFiles')]_vars

====
